---------------------------- MODULE Spec2Model ----------------------------
(***************************************************************************)
(* A model of npm-gitflow: the gitflow commands (feature/bugfix/release/   *)
(* hotfix start and finish), the dependency validator and the semver       *)
(* helpers they use.                                                       *)
(*                                                                         *)
(* Strings are TLA+ strings; TLC evaluates Len, \o and SubSeq on them, so  *)
(* startsWith, includes, the regular expressions and the semver grammar    *)
(* are computed character by character.                                    *)
(***************************************************************************)
EXTENDS Integers, Sequences, FiniteSets, TLC

(***************************************************************************)
(* JavaScript string helpers                                               *)
(***************************************************************************)

\* s[i] as a one-character string (i is 1-based here)
Char(s, i) == SubSeq(s, i, i)

\* s.substring(i-1): the suffix of s that starts at position i
From(s, i) == SubSeq(s, i, Len(s))

\* String.prototype.startsWith
StartsWith(s, p) == Len(s) >= Len(p) /\ SubSeq(s, 1, Len(p)) = p

\* String.prototype.includes
Includes(s, sub) ==
    \E i \in 1..(Len(s) - Len(sub) + 1) : SubSeq(s, i, i + Len(sub) - 1) = sub

\* String.prototype.indexOf for a single character, 1-based, 0 when absent
IndexOf(s, c) ==
    IF \E i \in 1..Len(s) : Char(s, i) = c
    THEN CHOOSE i \in 1..Len(s) :
            Char(s, i) = c /\ \A j \in 1..(i - 1) : Char(s, j) # c
    ELSE 0

Digits == {"0", "1", "2", "3", "4", "5", "6", "7", "8", "9"}

Letters ==
    {"a", "b", "c", "d", "e", "f", "g", "h", "i", "j", "k", "l", "m",
     "n", "o", "p", "q", "r", "s", "t", "u", "v", "w", "x", "y", "z",
     "A", "B", "C", "D", "E", "F", "G", "H", "I", "J", "K", "L", "M",
     "N", "O", "P", "Q", "R", "S", "T", "U", "V", "W", "X", "Y", "Z"}

DigitVal(c) ==
    CASE c = "0" -> 0 [] c = "1" -> 1 [] c = "2" -> 2 [] c = "3" -> 3
      [] c = "4" -> 4 [] c = "5" -> 5 [] c = "6" -> 6 [] c = "7" -> 7
      [] c = "8" -> 8 [] c = "9" -> 9

DigitChar(d) ==
    CASE d = 0 -> "0" [] d = 1 -> "1" [] d = 2 -> "2" [] d = 3 -> "3"
      [] d = 4 -> "4" [] d = 5 -> "5" [] d = 6 -> "6" [] d = 7 -> "7"
      [] d = 8 -> "8" [] d = 9 -> "9"

\* \d+ over the whole string
IsDigits(s) == Len(s) > 0 /\ \A i \in 1..Len(s) : Char(s, i) \in Digits

\* the number a digit string denotes
RECURSIVE StrToNat(_)
StrToNat(s) ==
    IF Len(s) = 0 THEN 0
    ELSE 10 * StrToNat(SubSeq(s, 1, Len(s) - 1)) + DigitVal(Char(s, Len(s)))

\* the decimal text of a natural number (template-literal formatting)
RECURSIVE NatToStr(_)
NatToStr(n) ==
    IF n < 10 THEN DigitChar(n)
    ELSE NatToStr(n \div 10) \o DigitChar(n % 10)

\* the value JavaScript's null has in the model; no formatter produces it
Null == "<null>"

\* !x for a string-or-null x
Falsy(x) == x = Null \/ x = ""

(***************************************************************************)
(* semver (the npm library the code calls), for the strings of the model:  *)
(* plain versions [v]MAJOR.MINOR.PATCH[-prerelease][+build], dist-tags and *)
(* URLs.  Partial versions, x-ranges and operator ranges are outside the   *)
(* model's universe of strings.                                            *)
(***************************************************************************)

\* a numeric identifier: 0|[1-9]\d*
NumericId(s) == IsDigits(s) /\ (Len(s) = 1 \/ Char(s, 1) # "0")

\* one prerelease or build identifier: [0-9A-Za-z-]+, numeric ones without
\* a leading zero when strict (prerelease)
IdOk(s, strict) ==
    /\ Len(s) > 0
    /\ \A i \in 1..Len(s) : Char(s, i) \in Digits \cup Letters \cup {"-"}
    /\ (strict /\ IsDigits(s)) => NumericId(s)

\* dot-separated identifiers
RECURSIVE IdsOk(_, _)
IdsOk(s, strict) ==
    LET d == IndexOf(s, ".")
    IN  IF d = 0 THEN IdOk(s, strict)
        ELSE IdOk(SubSeq(s, 1, d - 1), strict) /\ IdsOk(From(s, d + 1), strict)

\* what semver.parse returns for a string that is no version
NoVersion == [valid |-> FALSE]

\* s cut at the first occurrence of the character c
SplitFirst(s, c) ==
    LET i == IndexOf(s, c)
    IN  IF i = 0 THEN [found |-> FALSE, head |-> s, tail |-> ""]
        ELSE [found |-> TRUE, head |-> SubSeq(s, 1, i - 1), tail |-> From(s, i + 1)]

\* the version made of MAJOR "." (MINOR "." PATCH), a prerelease part and a
\* build part, each given as a cut
ParsedVersion(major, minor, pre, build) ==
    IF /\ major.found /\ minor.found
       /\ NumericId(major.head) /\ NumericId(minor.head) /\ NumericId(minor.tail)
       /\ (pre.found => IdsOk(pre.tail, TRUE))
       /\ (build.found => IdsOk(build.tail, FALSE))
    THEN [valid |-> TRUE, major |-> StrToNat(major.head),
          minor |-> StrToNat(minor.head), patch |-> StrToNat(minor.tail),
          prerelease |-> pre.tail, build |-> build.tail]
    ELSE NoVersion

\* the element of a one-element set; a cut is bound once and then read by
\* the next stage of the parse
Only(S) == CHOOSE x \in S : TRUE

ParseMinor(major, pre, build) ==
    Only({ ParsedVersion(major, minor, pre, build) :
           minor \in {SplitFirst(major.tail, ".")} })

ParseMajor(pre, build) ==
    Only({ ParseMinor(major, pre, build) : major \in {SplitFirst(pre.head, ".")} })

ParsePrerelease(build) ==
    Only({ ParseMajor(pre, build) : pre \in {SplitFirst(build.head, "-")} })

\* the string without the "v" a version may start with
Unprefixed(version) == IF StartsWith(version, "v") THEN From(version, 2) ELSE version

\* semver.parse(version): the parsed version, or NoVersion for null.  The
\* build part follows the first "+", the prerelease part the first "-" before it
SemverParse(version) ==
    Only({ ParsePrerelease(build) :
           build \in { SplitFirst(v, "+") : v \in {Unprefixed(version)} } })

\* MAJOR.MINOR.PATCH as text
FormatCore(major, minor, patch) ==
    NatToStr(major) \o "." \o NatToStr(minor) \o "." \o NatToStr(patch)

\* `${parsedVersion.major}.${parsedVersion.minor}.${parsedVersion.patch}`,
\* null when parsedVersion is null
CoreOf(parsedVersion) ==
    IF ~parsedVersion.valid THEN Null
    ELSE FormatCore(parsedVersion.major, parsedVersion.minor, parsedVersion.patch)

\* SemVer.format(): the core and the prerelease part, without build metadata
FormatOf(parsedVersion) ==
    IF ~parsedVersion.valid THEN Null
    ELSE FormatCore(parsedVersion.major, parsedVersion.minor, parsedVersion.patch)
         \o (IF parsedVersion.prerelease = "" THEN ""
             ELSE "-" \o parsedVersion.prerelease)

\* a variant that keeps the prerelease part of the version
GetVersionCoreKeepsPrerelease(version) == FormatOf(SemverParse(version))

\* getVersionCore(version): Major.Minor.Patch of the version, null if invalid
getVersionCore(version) ==
    Only({ CoreOf(parsedVersion) : parsedVersion \in {SemverParse(version)} })

\* a variant that increments the minor component (semver.inc(v, 'minor'))
IncMinorOf(parsedVersion) ==
    FormatCore(parsedVersion.major, parsedVersion.minor + 1, 0)

IncPatchOf(parsedVersion) ==
    FormatCore(parsedVersion.major, parsedVersion.minor, parsedVersion.patch + 1)

\* semver.inc(v, 'patch') for a version core v
SemverIncPatch(v) ==
    Only({ IncPatchOf(parsedVersion) : parsedVersion \in {SemverParse(v)} })

IncOrNull(versionCore) ==
    IF Falsy(versionCore) THEN Null ELSE SemverIncPatch(versionCore)

\* a variant that does not increment
GetIncrementedPatchVersionNoInc(version) == getVersionCore(version)

\* getIncrementedPatchVersion(version): the core with patch + 1, null if invalid
getIncrementedPatchVersion(version) ==
    Only({ IncOrNull(versionCore) : versionCore \in {getVersionCore(version)} })

(***************************************************************************)
(* Dependency validation (lib/validate-dependencies.js)                    *)
(*                                                                         *)
(* A manifest (package.json) is a record with a version and the three      *)
(* dependency maps, each a function from package names to specifiers.      *)
(***************************************************************************)

DependencyTypes == {"dependencies", "devDependencies", "peerDependencies"}

\* { ...packageJson.dependencies, ...devDependencies, ...peerDependencies }:
\* one object, a later map's entry replacing an earlier one of the same name
MergedDependencies(packageJson) ==
    [dep \in DOMAIN packageJson.dependencies \cup DOMAIN packageJson.devDependencies
             \cup DOMAIN packageJson.peerDependencies |->
        IF dep \in DOMAIN packageJson.peerDependencies
        THEN packageJson.peerDependencies[dep]
        ELSE IF dep \in DOMAIN packageJson.devDependencies
             THEN packageJson.devDependencies[dep]
             ELSE packageJson.dependencies[dep]]

\* new semver.Range(version): for a plain version, one comparator holding
\* that version; a dist-tag or a URL makes the constructor throw
SemverRange(version) ==
    LET v == SemverParse(version)
    IN  IF v.valid THEN [throws |-> FALSE, set0 |-> {v}]
        ELSE [throws |-> TRUE, set0 |-> {}]

\* isReleaseVersion(version)
isReleaseVersion(version) ==
    LET range == SemverRange(version)
    IN  IF ~range.throws
        THEN \A comparatorVersion \in range.set0 :
                ~(Len(comparatorVersion.prerelease) > 0
                  \/ Len(comparatorVersion.build) > 0)
        ELSE \* catch: semver.valid(version) is null for every string the
             \* Range constructor rejected
             LET parsedVersion == SemverParse(version)
             IN  parsedVersion.valid
                 /\ parsedVersion.prerelease = "" /\ parsedVersion.build = ""

\* a variant of the policy table in which develop also allows feature tags
GetAllowedTagsDevelopTakesFeature(targetBranchType) ==
    CASE targetBranchType = "release" -> [exactTags |-> {"next"}, prefixTags |-> {}]
      [] targetBranchType = "hotfix"  -> [exactTags |-> {"hotfix"}, prefixTags |-> {}]
      [] targetBranchType = "develop" -> [exactTags |-> {"dev"}, prefixTags |-> {"feature"}]
      [] targetBranchType = "feature" -> [exactTags |-> {"dev"}, prefixTags |-> {"feature"}]
      [] targetBranchType = "bugfix"  -> [exactTags |-> {"dev"}, prefixTags |-> {"bugfix"}]
      [] OTHER                        -> [exactTags |-> {}, prefixTags |-> {}]

\* getAllowedTags(targetBranchType)
getAllowedTags(targetBranchType) ==
    CASE targetBranchType = "release" -> [exactTags |-> {"next"}, prefixTags |-> {}]
      [] targetBranchType = "hotfix"  -> [exactTags |-> {"hotfix"}, prefixTags |-> {}]
      [] targetBranchType = "develop" -> [exactTags |-> {"dev"}, prefixTags |-> {}]
      [] targetBranchType = "feature" -> [exactTags |-> {"dev"}, prefixTags |-> {"feature"}]
      [] targetBranchType = "bugfix"  -> [exactTags |-> {"dev"}, prefixTags |-> {"bugfix"}]
      [] OTHER                        -> [exactTags |-> {}, prefixTags |-> {}]

\* isVersionAllowed(version, targetBranchType)
isVersionAllowed(version, targetBranchType) ==
    \/ isReleaseVersion(version)
    \/ LET allowedTags == getAllowedTags(targetBranchType)
       IN  \/ version \in allowedTags.exactTags
           \/ \E prefix \in allowedTags.prefixTags : StartsWith(version, prefix)

\* `${dep}@${version}`
Offender(dep, version) == dep \o "@" \o version

\* a variant that ignores the exclusion set
InvalidDepsIgnoringExclusions(packageJson, targetBranchType, excludePackages) ==
    LET dependencies == MergedDependencies(packageJson)
    IN  { Offender(dep, dependencies[dep]) :
            dep \in { d \in DOMAIN dependencies :
                        ~isVersionAllowed(dependencies[d], targetBranchType) } }

\* the invalidDeps list validateDependencies builds (as a set)
InvalidDeps(packageJson, targetBranchType, excludePackages) ==
    LET dependencies == MergedDependencies(packageJson)
    IN  { Offender(dep, dependencies[dep]) :
            dep \in { d \in DOMAIN dependencies :
                        /\ d \notin excludePackages
                        /\ ~isVersionAllowed(dependencies[d], targetBranchType) } }

\* /^\d+\.\d+\.\d/ : digits, a dot, digits, a dot and a digit, at the start
MatchesVersionStart(version) ==
    \E i, j \in 1..Len(version) :
        /\ i > 1 /\ j > i + 1 /\ j < Len(version)
        /\ IsDigits(SubSeq(version, 1, i - 1)) /\ Char(version, i) = "."
        /\ IsDigits(SubSeq(version, i + 1, j - 1)) /\ Char(version, j) = "."
        /\ Char(version, j + 1) \in Digits

\* /^git:|^git\+https:|^git\+http:|^git\+ssh:|^git\+file:/
MatchesGitUrl(version) ==
    \E scheme \in {"git:", "git+https:", "git+http:", "git+ssh:", "git+file:"} :
        StartsWith(version, scheme)

\* Object.assign({}, dependencies || {}, devDependencies || {}, peerDependencies || {})
\* followed by the loop of hasNotStableDependencies: the entries it reports
NotStableDependencies(packageJsonFile) ==
    LET dependencies == MergedDependencies(packageJsonFile)
    IN  { property \in DOMAIN dependencies :
            LET version == dependencies[property]
            IN  /\ (~MatchesVersionStart(version) \/ Includes(version, "dev"))
                /\ ~MatchesGitUrl(version) }

\* hasNotStableDependencies(): truthy when some dependency was reported
hasNotStableDependencies(packageJsonFile) ==
    NotStableDependencies(packageJsonFile) # {}

(***************************************************************************)
(* Dependency tag rewrite (lib/npm-utils.js)                               *)
(***************************************************************************)

\* a variant whose topic predicate knows the feature prefix only
VersionPredicateFeatureOnly(predicate, version) ==
    CASE predicate = "isDev"   -> version = "dev"
      [] predicate = "isTopic" -> StartsWith(version, "feature")

\* a variant whose predicate for "dev" also holds of the target "next"
VersionPredicateDevOrNext(predicate, version) ==
    CASE predicate = "isDev"   -> version \in {"dev", "next"}
      [] predicate = "isTopic" -> StartsWith(version, "feature")
                                  \/ StartsWith(version, "bugfix")

\* the version predicates the commands pass to the rewrite
VersionPredicate(predicate, version) ==
    CASE predicate = "isDev"   -> version = "dev"
      [] predicate = "isTopic" -> StartsWith(version, "feature")
                                  \/ StartsWith(version, "bugfix")

\* a variant that rewrites the dependencies map only
RewrittenDependenciesOnly(packageJson, predicate, newVersion) ==
    [packageJson EXCEPT !.dependencies =
        [pkg \in DOMAIN @ |->
            IF VersionPredicate(predicate, @[pkg]) THEN newVersion ELSE @[pkg]]]

\* updateDistTagDependencies: the three maps with every matching entry
\* replaced by newVersion
RewrittenManifest(packageJson, predicate, newVersion) ==
    LET rewrite(map) ==
            [pkg \in DOMAIN map |->
                IF VersionPredicate(predicate, map[pkg]) THEN newVersion ELSE map[pkg]]
    IN  [packageJson EXCEPT !.dependencies = rewrite(@),
                            !.devDependencies = rewrite(@),
                            !.peerDependencies = rewrite(@)]

\* a variant that reports the matches of the dependencies map only
UpdatedPackagesOfDependencies(packageJson, predicate) ==
    { pkg \in DOMAIN packageJson.dependencies :
        VersionPredicate(predicate, packageJson.dependencies[pkg]) }

\* updateDistTagDependencies: the updatedPackages it returns (as a set)
UpdatedPackages(packageJson, predicate) ==
    UNION { { pkg \in DOMAIN packageJson[type] :
                VersionPredicate(predicate, packageJson[type][pkg]) } :
            type \in DependencyTypes }

(***************************************************************************)
(* State                                                                   *)
(*                                                                         *)
(* One command-line invocation of one workflow script against one clone    *)
(* and its remote, and one call of the dependency validator.               *)
(***************************************************************************)

VARIABLES
    remote,      \* remote heads: branch name -> committed manifest
    local,       \* local branches: branch name -> committed manifest
    upstream,    \* local branches that track a remote branch
    reach,       \* local branch -> local branches whose tip its history contains
    mergeHead,   \* the branch of a merge that is staged but not committed
    current,     \* the checked-out branch
    wt,          \* package.json in the working tree
    clean,       \* git status reports no change at invocation
    tags,        \* local tags
    remoteTags,  \* tags on the remote
    lockFiles,   \* lock files present in the working tree
    cmd,         \* the script invoked and its command-line arguments
    start,       \* the branches and the checked-out branch at invocation
    pc,          \* index of the next step of the script's promise chain
    status,      \* "running", "completed" or "exited" (process.exit)
    exitCode,    \* the process' exit code once it is not running
    failure,     \* the kind of error that ended the invocation
    ops,         \* the git commands and manifest writes issued so far
    ctx,         \* the script's variables (closure and module level)
    vd,          \* one call of validateDependencies
    sv,          \* one call of a version helper of npm-utils
    rw,          \* one call of updateDistTagsDependencies
    race,        \* two release-start invocations against one remote
    lk,          \* one run of the lock file update
    cp,          \* one rewrite of a manifest followed by a validation
    inv,         \* a sequence of invocations against one remote
    mono         \* the manifests of a monorepo from release-start to the finish

repoVars == <<remote, local, upstream, reach, mergeHead, current, wt, clean, tags,
              remoteTags, lockFiles>>
procVars == <<cmd, start, pc, status, exitCode, failure, ops, ctx>>
vars == <<remote, local, upstream, reach, mergeHead, current, wt, clean, tags,
          remoteTags, lockFiles, cmd, start, pc, status, exitCode, failure, ops, ctx,
          vd, sv, rw, race, lk, cp, inv, mono>>
callVars == <<sv, rw, race, lk, cp, inv, mono>>

\* no helper call, second invocation or lock file update is modelled
NoCall == [pc |-> "idle"]
IdleCalls ==
    /\ sv = NoCall /\ rw = NoCall /\ race = NoCall /\ lk = NoCall
    /\ cp = NoCall /\ inv = NoCall /\ mono = NoCall

\* an object without entries
NoDeps == <<>>

Manifest(version, dependencies, devDependencies, peerDependencies) ==
    [version |-> version, dependencies |-> dependencies,
     devDependencies |-> devDependencies, peerDependencies |-> peerDependencies]

(***************************************************************************)
(* The validator on its own: validateDependencies(targetBranchType,        *)
(* excludePackages) called on an arbitrary small manifest.                 *)
(***************************************************************************)

\* greatest number of dependency entries of a generated manifest
MaxEntries == 2

\* dependency specifiers: release versions, prerelease and build versions,
\* dist-tags, topic tags and a VCS URL
Specifiers ==
    {"1.0.0", "1.0.0-dev.0", "1.0.0+b1", "dev", "next", "hotfix",
     "feature-x", "bugfix-y", "develop", "git+https://h/r.git"}

ValPackages == {"a", "b"}

BranchTypes == {"main", "release", "hotfix", "develop", "feature", "bugfix"}

Slots == DependencyTypes \X ValPackages

\* the manifest whose entries are given by a function on a set of slots
ManifestOf(entries) ==
    LET map(type) ==
            [pkg \in { q \in ValPackages : <<type, q>> \in DOMAIN entries } |->
                entries[<<type, pkg>>]]
    IN  Manifest("1.0.0", map("dependencies"), map("devDependencies"),
                 map("peerDependencies"))

GeneratedManifests ==
    { ManifestOf(entries) :
        entries \in UNION { [S -> Specifiers] :
                              S \in { T \in SUBSET Slots : Cardinality(T) <= MaxEntries } } }

\* {a: 1.0.0, b: dev, c: feature-x}
ExampleManifest ==
    Manifest("1.0.0", [pkg \in {"a", "b", "c"} |->
                          CASE pkg = "a" -> "1.0.0"
                            [] pkg = "b" -> "dev"
                            [] pkg = "c" -> "feature-x"],
             NoDeps, NoDeps)

\* @mui/lab@alpha-1 next to a release-grade dependency
MuiManifest ==
    Manifest("1.0.0", [pkg \in {"@mui/lab", "a"} |->
                          IF pkg = "a" THEN "1.0.0" ELSE "alpha-1"],
             NoDeps, NoDeps)

\* the calls made: a manifest and the excludePackages argument
ValCalls ==
    ((GeneratedManifests \cup {ExampleManifest}) \X {{}, {"a"}})
        \cup ({MuiManifest} \X {{}, {"@mui/lab"}})

IdleCall ==
    [pc |-> "idle", packageJson |-> Manifest("", NoDeps, NoDeps, NoDeps),
     targetBranchType |-> "", excludePackages |-> {}, invalidDeps |-> {}]

\* no workflow script is running
IdleProcess ==
    /\ remote = <<>> /\ local = <<>> /\ upstream = {} /\ current = ""
    /\ reach = <<>> /\ mergeHead = Null
    /\ wt = Manifest("", NoDeps, NoDeps, NoDeps) /\ clean = TRUE
    /\ tags = {} /\ remoteTags = {} /\ lockFiles = {}
    /\ cmd = [name |-> ""] /\ start = <<>>
    /\ pc = 0 /\ status = "idle" /\ exitCode = 0
    /\ failure = "" /\ ops = <<>> /\ ctx = <<>>

InitValidate ==
    /\ IdleProcess
    /\ IdleCalls
    /\ vd \in { [pc |-> "call", packageJson |-> call[1],
                 targetBranchType |-> targetBranchType,
                 excludePackages |-> call[2], invalidDeps |-> {}] :
                call \in ValCalls, targetBranchType \in BranchTypes }

\* validateDependencies: invalidDeps.length > 0, handleError(new Error(...))
ValidateFails ==
    /\ vd.pc = "call"
    /\ LET invalidDeps == InvalidDeps(vd.packageJson, vd.targetBranchType,
                                      vd.excludePackages)
       IN  /\ invalidDeps # {}
           /\ vd' = [vd EXCEPT !.pc = "failed", !.invalidDeps = invalidDeps]
    /\ UNCHANGED <<repoVars, procVars, callVars>>

\* validateDependencies: no invalid dependency, resolve()
ValidateResolves ==
    /\ vd.pc = "call"
    /\ InvalidDeps(vd.packageJson, vd.targetBranchType, vd.excludePackages) = {}
    /\ vd' = [vd EXCEPT !.pc = "resolved"]
    /\ UNCHANGED <<repoVars, procVars, callVars>>

NextValidate == ValidateFails \/ ValidateResolves

SpecValidate == InitValidate /\ [][NextValidate]_vars

(***************************************************************************)
(* The validator: properties                                               *)
(***************************************************************************)

\* every (map, package, specifier) entry of a manifest
Entries(packageJson) ==
    UNION { { <<type, dep, packageJson[type][dep]>> : dep \in DOMAIN packageJson[type] } :
            type \in DependencyTypes }

\* the maps of a manifest that declare a package
DeclaringMaps(packageJson, dep) ==
    { type \in DependencyTypes : dep \in DOMAIN packageJson[type] }

\* three dot-separated numbers and nothing else
IsVersionCore(specifier) ==
    \E i, j \in 1..Len(specifier) :
        /\ i < j
        /\ IsDigits(SubSeq(specifier, 1, i - 1)) /\ Char(specifier, i) = "."
        /\ IsDigits(SubSeq(specifier, i + 1, j - 1)) /\ Char(specifier, j) = "."
        /\ IsDigits(SubSeq(specifier, j + 1, Len(specifier)))

\* the policy rows as the documentation gives them
PolicyExactTags(branchType) ==
    CASE branchType = "release" -> {"next"}
      [] branchType = "hotfix" -> {"hotfix"}
      [] branchType \in {"develop", "feature", "bugfix"} -> {"dev"}
      [] branchType = "main" -> {}

PolicyPrefixTags(branchType) ==
    CASE branchType = "feature" -> {"feature"}
      [] branchType = "bugfix" -> {"bugfix"}
      [] OTHER -> {}

\* allowed by the policy row of a branch type, VCS URLs set aside
PolicyAllows(specifier, branchType) ==
    \/ IsVersionCore(specifier)
    \/ specifier \in PolicyExactTags(branchType)
    \/ \E prefix \in PolicyPrefixTags(branchType) : StartsWith(specifier, prefix)

ValidateReturned == vd.pc \in {"failed", "resolved"}

C6_VcsUrlAlwaysAllowed ==
    ValidateReturned =>
        \A e \in Entries(vd.packageJson) :
            MatchesGitUrl(e[3]) => Offender(e[2], e[3]) \notin vd.invalidDeps

\* C7: an excluded package is never reported whatever its specifier; excluding
\* a package changes the verdict for no other package; under main policy a
\* forbidden specifier makes validation fail when its package is not excluded.
C7_ExclusionBypass ==
    ValidateReturned =>
        /\ \A e \in Entries(vd.packageJson) :
              e[2] \in vd.excludePackages => Offender(e[2], e[3]) \notin vd.invalidDeps
        /\ \A e \in Entries(vd.packageJson) :
              e[2] \notin vd.excludePackages
              => (Offender(e[2], e[3]) \in vd.invalidDeps
                    <=> Offender(e[2], e[3])
                          \in InvalidDeps(vd.packageJson, vd.targetBranchType, {}))
        /\ vd.targetBranchType = "main"
              => \A e \in Entries(vd.packageJson) :
                    (/\ e[2] \notin vd.excludePackages
                     /\ ~MatchesGitUrl(e[3])
                     /\ ~PolicyAllows(e[3], "main"))
                    => vd.pc = "failed"

\* C8: a failed call lists exactly the violating entries: every non-excluded
\* dependency with a forbidden specifier, and no allowed or excluded one.
C8_FullOffenderList ==
    vd.pc = "failed" =>
        vd.invalidDeps =
            { Offender(e[2], e[3]) :
                e \in { f \in Entries(vd.packageJson) :
                          /\ f[2] \notin vd.excludePackages
                          /\ ~MatchesGitUrl(f[3])
                          /\ ~PolicyAllows(f[3], vd.targetBranchType) } }

(***************************************************************************)
(* The workflow scripts: repository scenarios and command lines            *)
(***************************************************************************)

StableDeps == Manifest("", [pkg \in {"a"} |-> "1.0.0"], NoDeps, NoDeps)
DevDeps == Manifest("", [pkg \in {"a"} |-> "dev"], NoDeps, NoDeps)
MuiDeps == Manifest("", [pkg \in {"@mui/lab"} |-> "alpha-1"], NoDeps, NoDeps)
TopicDeps ==
    Manifest("", [pkg \in {"a", "b", "c"} |->
                    CASE pkg = "a" -> "feature-x"
                      [] pkg = "b" -> "bugfix-y"
                      [] pkg = "c" -> "1.0.0"],
             NoDeps, NoDeps)

WithVersion(packageJson, version) == [packageJson EXCEPT !.version = version]

\* what a clone that has not been updated for a while still holds
OldManifest == WithVersion(StableDeps, "0.9.0")

MainManifest == WithVersion(StableDeps, "1.2.3")

\* main as hotfix-start may find it: a release, a prerelease, no version
MainManifests ==
    {MainManifest, WithVersion(StableDeps, "1.2.3-rc.1"), WithVersion(StableDeps, "bogus")}

DevelopManifests == {WithVersion(StableDeps, "2.3.0"), WithVersion(DevDeps, "2.3.0")}

\* develop with a prerelease suffix, as release-start may find it
SuffixedDevelopManifest == WithVersion(StableDeps, "2.3.0-dev.0")

ReleaseManifests ==
    {WithVersion(StableDeps, "2.3.0-next.0"), WithVersion(MuiDeps, "2.3.0-next.0"),
     WithVersion(StableDeps, "bogus")}

HotfixManifests == {WithVersion(StableDeps, "1.2.4")}

TopicBranches == {"feature/x", "bugfix/y", "wip-feature"}

\* other heads a remote may have, whose names begin like release and hotfix
SimilarHeads == {"release-1.0", "hotfixes"}

LockFileNames == {"package-lock.json", "npm-shrinkwrap.json", "yarn.lock"}

\* no topic branch; no such branch on the remote
None == "none"
Absent == Manifest(Null, NoDeps, NoDeps, NoDeps)

StartCommands == {"feature-start", "bugfix-start", "release-start", "hotfix-start"}
FinishCommands == {"feature-finish", "bugfix-finish", "release-finish", "hotfix-finish"}
TopicCommands == {"feature-start", "bugfix-start", "feature-finish", "bugfix-finish"}

\* the branch type a script works on
BranchTypeOf(name) ==
    CASE name \in {"feature-start", "feature-finish"} -> "feature"
      [] name \in {"bugfix-start", "bugfix-finish"} -> "bugfix"
      [] name \in {"release-start", "release-finish"} -> "release"
      [] name \in {"hotfix-start", "hotfix-finish"} -> "hotfix"

CommandLine(name, branchName, squash, specifiedVersion, exclude) ==
    [name |-> name, branchName |-> branchName, squash |-> squash,
     specifiedVersion |-> specifiedVersion, exclude |-> exclude]

\* the command lines considered
CommandLines ==
    { CommandLine(name, branchName, FALSE, "", {}) :
        name \in {"feature-start", "bugfix-start"}, branchName \in {"", "x"} }
    \cup { CommandLine(name, "", squash, "", {}) :
             name \in {"feature-finish", "bugfix-finish"}, squash \in BOOLEAN }
    \cup { CommandLine("release-start", "", FALSE, specifiedVersion, {}) :
             specifiedVersion \in {"", "3.0.0", "3.0.0-rc.1", "3.0.0+b1", "bogus"} }
    \cup { CommandLine("hotfix-start", "", FALSE, "", {}) }
    \cup { CommandLine(name, "", FALSE, "", exclude) :
             name \in {"release-finish", "hotfix-finish"},
             exclude \in {{}, {"@mui/lab"}} }

\* a repository scenario: what the remote holds and how far the clone lags
Scenarios ==
    [release : {Absent} \cup ReleaseManifests,
     hotfix : {Absent} \cup HotfixManifests,
     topic : {None} \cup TopicBranches \cup SimilarHeads,
     main : MainManifests,
     develop : DevelopManifests \cup {SuffixedDevelopManifest},
     clone : {"synced", "behind", "partial"},
     lockFiles : {{}} \cup { {f} : f \in LockFileNames }]

\* only what a script reads is varied with it
ScenarioFor(c, sc) ==
    /\ BranchTypeOf(c.name) # "release" => sc.release = Absent
    /\ BranchTypeOf(c.name) # "hotfix" => sc.hotfix = Absent
    /\ c.name \notin TopicCommands \cup {"release-start", "hotfix-start"} =>
          sc.topic \in {None, "feature/x"}
    /\ c.name \in TopicCommands => sc.topic \notin SimilarHeads
    /\ c.name = "release-start" =>
          /\ sc.topic \in {None, "feature/x", "release-1.0"}
          /\ sc.topic = "release-1.0" => sc.release = Absent
    /\ c.name = "hotfix-start" =>
          /\ sc.topic \in {None, "feature/x", "hotfixes"}
          /\ sc.topic = "hotfixes" => sc.hotfix = Absent
    /\ c.name # "release-start" => sc.lockFiles = {}
    /\ c.name # "release-start" => sc.develop \in DevelopManifests
    /\ c.name # "hotfix-start" => sc.main = MainManifest

\* the manifest of a topic branch: develop's version, or a version of the
\* branch's own
TopicManifest(branch, developVersion) ==
    [TopicDeps EXCEPT !.version = IF branch = "bugfix/y" THEN "2.3.0-bugfix-y.0"
                                  ELSE developVersion]

\* the heads of the remote in a scenario
RemoteOf(sc) ==
    LET heads == {"main", "develop"}
                 \cup (IF sc.release = Absent THEN {} ELSE {"release"})
                 \cup (IF sc.hotfix = Absent THEN {} ELSE {"hotfix"})
                 \cup (IF sc.topic = None THEN {} ELSE {sc.topic})
    IN  [b \in heads |->
            CASE b = "main" -> sc.main
              [] b = "develop" -> sc.develop
              [] b = "release" -> sc.release
              [] b = "hotfix" -> sc.hotfix
              [] OTHER -> TopicManifest(b, sc.develop.version)]

\* the branches of the clone: in step with the remote, behind it on every
\* long-lived branch, or without the release and hotfix branches
LocalOf(sc) ==
    LET r == RemoteOf(sc)
        heads == IF sc.clone = "partial"
                 THEN DOMAIN r \ {"release", "hotfix"} ELSE DOMAIN r
    IN  [b \in heads |->
            IF sc.clone = "behind" /\ b \notin TopicBranches THEN OldManifest ELSE r[b]]

NoContext ==
    [loaded |-> FALSE, packageJsonFile |-> Manifest("", NoDeps, NoDeps, NoDeps),
     branchVersion |-> Null, sourceBranch |-> Null, currentBranch |-> Null,
     version |-> Null, sourceVersion |-> Null, invalidDeps |-> {}]

Init ==
    /\ vd = IdleCall
    /\ IdleCalls
    /\ \E c \in CommandLines, sc \in Scenarios :
          /\ ScenarioFor(c, sc)
          /\ cmd = c
          /\ remote = RemoteOf(sc)
          /\ local = LocalOf(sc)
          /\ upstream = DOMAIN LocalOf(sc)
          /\ reach = [b \in DOMAIN LocalOf(sc) |-> {b}]
          /\ current \in DOMAIN LocalOf(sc)
          /\ wt = LocalOf(sc)[current]
          /\ lockFiles = sc.lockFiles
          /\ start = [current |-> current, remote |-> RemoteOf(sc),
                      local |-> LocalOf(sc)]
    /\ clean \in BOOLEAN
    /\ mergeHead = Null
    /\ tags = {"1.2.3"} /\ remoteTags = {"1.2.3"}
    /\ pc = 0 /\ status = "running" /\ exitCode = 0 /\ failure = ""
    /\ ops = <<>> /\ ctx = NoContext

(***************************************************************************)
(* The promise chains of the scripts.  The project is taken to be a        *)
(* single-package one (no lerna.json).                                     *)
(***************************************************************************)

Step(fn, a) == [fn |-> fn, a |-> a]

\* a variant that creates the tag before the version is set and committed
FinishReleaseProgramTagFirst(branchName) ==
    << Step("checkUncommittedChanges", ""),
       Step("switchToBranchAndPull", branchName),
       Step("validateDependencies", "main"),
       Step("getBranchVersion", branchName),
       Step("switchToBranchAndPull", "main"),
       Step("mergeFromBranch", "$sourceBranch"),
       Step("createAndPushTag", "$branchVersion"),
       Step("changePackageJsonVersion", "$branchVersion"),
       Step("commit", "$branchVersion"),
       Step("push", ""),
       Step("switchToBranchAndPull", "develop"),
       Step("mergeFromBranch", "main"),
       Step("getVersionFromBranch", "main"),
       Step("setIncrementedVersion", "$version"),
       Step("commitAndPush", "develop"),
       Step("deleteBranch", "$sourceBranch") >>

\* finishReleaseBranch(git, branchName, packagesToExcludeFromVersionValidation)
FinishReleaseProgram(branchName) ==
    << Step("checkUncommittedChanges", ""),
       Step("switchToBranchAndPull", branchName),
       Step("validateDependencies", "main"),
       Step("getBranchVersion", branchName),
       Step("switchToBranchAndPull", "main"),
       Step("mergeFromBranch", "$sourceBranch"),
       Step("changePackageJsonVersion", "$branchVersion"),
       Step("commit", "$branchVersion"),
       Step("createAndPushTag", "$branchVersion"),
       Step("push", ""),
       Step("switchToBranchAndPull", "develop"),
       Step("mergeFromBranch", "main"),
       Step("getVersionFromBranch", "main"),
       Step("setIncrementedVersion", "$version"),
       Step("commitAndPush", "develop"),
       Step("deleteBranch", "$sourceBranch") >>

\* bin/release-start.js
ReleaseStartProgram ==
    << Step("checkUncommittedChanges", ""),
       Step("checkRemoteBranchExists", "release"),
       Step("switchToBranchAndPull", "develop"),
       Step("checkPackageJsonVersions", ""),
       Step("createReleaseBranch", ""),
       Step("setSpecifiedVersion", ""),
       Step("updateDistTagsDependencies", "next"),
       Step("commitAndPush", "release") >>

\* bin/hotfix-start.js
HotfixStartProgram ==
    << Step("checkUncommittedChanges", ""),
       Step("checkRemoteBranchExists", "hotfix"),
       Step("switchToBranchAndPull", "main"),
       Step("getVersionFromBranch", "main"),
       Step("createHotfixBranch", "$version"),
       Step("commitAndPush", "hotfix") >>

\* startTopicBranch(git, branchType, branchName)
StartTopicProgram(branchType, branchName) ==
    << Step("checkUncommittedChanges", ""),
       Step("switchToBranchAndPull", "develop"),
       Step("createBranch", branchType \o "/" \o branchName),
       Step("pushNewBranch", branchType \o "/" \o branchName) >>

\* finishTopicBranch(git, branchType, squash, customMessage)
FinishTopicProgram ==
    << Step("checkUncommittedChanges", ""),
       Step("getCurrentBranchName", ""),
       Step("updateBranchWithDevelop", ""),
       Step("switchToBranchAndPull", "develop"),
       Step("mergeToDevelop", "$currentBranch"),
       Step("getVersionFromBranch", "develop"),
       Step("changePackageJsonVersion", "$version"),
       Step("updateDistTagsDependenciesAndLockFiles", "dev"),
       Step("commitAndPush", "develop"),
       Step("deleteBranch", "$currentBranch") >>

Program(c) ==
    CASE c.name \in {"release-finish", "hotfix-finish"} ->
            FinishReleaseProgram(BranchTypeOf(c.name))
      [] c.name = "release-start" -> ReleaseStartProgram
      [] c.name = "hotfix-start" -> HotfixStartProgram
      [] c.name \in {"feature-start", "bugfix-start"} ->
            StartTopicProgram(BranchTypeOf(c.name), c.branchName)
      [] c.name \in {"feature-finish", "bugfix-finish"} -> FinishTopicProgram

\* the value of a step's argument: a literal or a variable of the script
Resolve(a) ==
    CASE a = "$sourceBranch" -> ctx.sourceBranch
      [] a = "$currentBranch" -> ctx.currentBranch
      [] a = "$branchVersion" -> ctx.branchVersion
      [] a = "$version" -> ctx.version
      [] OTHER -> a

\* the chain has reached a call of fn
Running(fn) ==
    /\ status = "running"
    /\ pc \in 1..Len(Program(cmd))
    /\ Program(cmd)[pc].fn = fn

Arg == Resolve(Program(cmd)[pc].a)

\* the promise resolves and the chain goes on with its next step
Proceed(issued) ==
    /\ pc' = pc + 1
    /\ ops' = issued
    /\ UNCHANGED <<cmd, start, status, exitCode, failure>>

\* process.exit(code)
Exit(code, kind, issued) ==
    /\ status' = "exited"
    /\ exitCode' = code
    /\ failure' = kind
    /\ ops' = issued
    /\ UNCHANGED <<cmd, start, pc>>

\* a variant that logs the error and lets the chain go on
HandleErrorGoesOn(kind, issued) ==
    /\ pc' = pc + 1
    /\ failure' = kind
    /\ ops' = issued
    /\ UNCHANGED <<cmd, start, status, exitCode>>

\* handleError(err) with err set: console.log(err); process.exit(1)
handleError(kind, issued) == Exit(1, kind, issued)

Issue(op, a) == Append(ops, <<op, a>>)

\* a function without the entry of one key
Without(f, key) == [k \in DOMAIN f \ {key} |-> f[k]]

\* the tip of a branch moves: no other branch contains it any longer
TipMoved(r, branch) ==
    [b \in DOMAIN r |-> IF b = branch THEN r[b] ELSE r[b] \ {branch}]

\* what a three-way merge can leave in package.json when it succeeds: each of
\* the version and the dependency maps comes from one of the two sides
MergeResults(ours, theirs) ==
    { [side EXCEPT !.version = version] :
        side \in {ours, theirs}, version \in {ours.version, theirs.version} }

\* semver.valid(version), as npm version uses it: the version without build
\* metadata, null when it does not parse
SemverValid(version) == FormatOf(SemverParse(version))

\* git ls-remote --heads: one line per head
RECURSIVE ListRemote(_)
ListRemote(heads) ==
    IF heads = {} THEN ""
    ELSE LET head == CHOOSE h \in heads : TRUE
         IN  "0a1b2c refs/heads/" \o head \o "\n" \o ListRemote(heads \ {head})

(***************************************************************************)
(* The scripts' synchronous start, up to the first call of the chain       *)
(***************************************************************************)

\* bin/release-start.js: require(package.json), then the version argument
LaunchReleaseStart ==
    /\ status = "running" /\ pc = 0 /\ cmd.name = "release-start"
    /\ ctx' = [ctx EXCEPT !.loaded = TRUE, !.packageJsonFile = wt]
    /\ \E specifiedVersion \in {cmd.specifiedVersion},
          versionCore \in {getVersionCore(cmd.specifiedVersion)} :
           IF specifiedVersion # ""
              /\ (Falsy(versionCore) \/ specifiedVersion # versionCore)
           THEN Exit(1, "InvalidArgument", ops)
           ELSE Proceed(ops)
    /\ UNCHANGED <<repoVars, vd, callVars>>

\* bin/hotfix-start.js: require(package.json)
LaunchHotfixStart ==
    /\ status = "running" /\ pc = 0 /\ cmd.name = "hotfix-start"
    /\ ctx' = [ctx EXCEPT !.loaded = TRUE, !.packageJsonFile = wt]
    /\ Proceed(ops)
    /\ UNCHANGED <<repoVars, vd, callVars>>

\* bin/release-finish.js, bin/hotfix-finish.js: the exclusion list is parsed
\* and finishReleaseBranch is called
LaunchFinishRelease ==
    /\ status = "running" /\ pc = 0
    /\ cmd.name \in {"release-finish", "hotfix-finish"}
    /\ Proceed(ops)
    /\ UNCHANGED <<repoVars, ctx, vd, callVars>>

\* startTopicBranch: an empty name ends the process with exit code 0
LaunchStartTopic ==
    /\ status = "running" /\ pc = 0
    /\ cmd.name \in {"feature-start", "bugfix-start"}
    /\ IF cmd.branchName = ""
       THEN Exit(0, "EmptyBranchName", ops)
       ELSE Proceed(ops)
    /\ UNCHANGED <<repoVars, ctx, vd, callVars>>

\* finishTopicBranch: nothing is checked before the chain starts
LaunchFinishTopic ==
    /\ status = "running" /\ pc = 0
    /\ cmd.name \in {"feature-finish", "bugfix-finish"}
    /\ Proceed(ops)
    /\ UNCHANGED <<repoVars, ctx, vd, callVars>>

(***************************************************************************)
(* lib/git-utils.js.  Every git command may fail; the catch handler is     *)
(* handleError, which ends the process with exit code 1.                   *)
(***************************************************************************)

\* a variant whose promise is left unsettled on a dirty working tree
CheckUncommittedChangesUnsettled ==
    /\ Running("checkUncommittedChanges")
    /\ clean
    /\ Proceed(Issue("status", ""))
    /\ UNCHANGED <<repoVars, ctx, vd, callVars>>

checkUncommittedChanges ==
    /\ Running("checkUncommittedChanges")
    /\ \E err \in BOOLEAN :
          LET issued == Issue("status", "")
          IN  IF err THEN handleError("ToolFailure", issued)
              ELSE IF ~clean THEN Exit(1, "UncommittedChanges", issued)
              ELSE Proceed(issued)
    /\ UNCHANGED <<repoVars, ctx, vd, callVars>>

\* git checkout branch (created from the remote head when the clone lacks
\* it), then git pull
switchToBranchAndPull ==
    /\ Running("switchToBranchAndPull")
    /\ LET branch == Arg
           canCheckout == branch \in DOMAIN local \cup DOMAIN remote
           created == branch \notin DOMAIN local
           localAfter == IF created THEN local @@ (branch :> remote[branch]) ELSE local
           upstreamAfter == IF created THEN upstream \cup {branch} ELSE upstream
           reachAfter == IF created THEN reach @@ (branch :> {branch}) ELSE reach
           canPull == branch \in upstreamAfter /\ branch \in DOMAIN remote
       IN  \E outcome \in {"checkoutFails", "pullFails", "ok"} :
              /\ outcome # "checkoutFails" => canCheckout
              /\ outcome = "ok" => canPull
              /\ CASE outcome = "checkoutFails" ->
                        /\ handleError("ToolFailure", Issue("checkout", branch))
                        /\ UNCHANGED <<local, upstream, reach, current, wt>>
                   [] outcome = "pullFails" ->
                        /\ handleError("ToolFailure",
                                       Issue("checkout", branch) \o <<(<<"pull", branch>>)>>)
                        /\ local' = localAfter /\ upstream' = upstreamAfter
                        /\ reach' = reachAfter
                        /\ current' = branch /\ wt' = localAfter[branch]
                   [] outcome = "ok" ->
                        /\ Proceed(Issue("checkout", branch) \o <<(<<"pull", branch>>)>>)
                        /\ local' = [localAfter EXCEPT ![branch] = remote[branch]]
                        /\ upstream' = upstreamAfter
                        /\ reach' = IF localAfter[branch] # remote[branch]
                                    THEN TipMoved(reachAfter, branch) ELSE reachAfter
                        /\ current' = branch /\ wt' = remote[branch]
    /\ UNCHANGED <<remote, mergeHead, clean, tags, remoteTags, lockFiles, ctx, vd, callVars>>

\* a variant that reads the version from the file in the working tree
GetVersionFromWorkingTree ==
    /\ Running("getVersionFromBranch")
    /\ LET branch == Arg
           issued == Issue("show", branch)
       IN  \E err \in BOOLEAN :
              /\ branch \notin DOMAIN local => err
              /\ IF err
                 THEN handleError("ToolFailure", issued) /\ UNCHANGED ctx
                 ELSE /\ Proceed(issued)
                      /\ ctx' = [ctx EXCEPT !.version = wt.version]
    /\ UNCHANGED <<repoVars, vd, callVars>>

\* git show branch:package.json, JSON.parse(data)["version"]
getVersionFromBranch ==
    /\ Running("getVersionFromBranch")
    /\ LET branch == Arg
           issued == Issue("show", branch)
       IN  \E err \in BOOLEAN :
              /\ branch \notin DOMAIN local => err
              /\ IF err
                 THEN handleError("ToolFailure", issued) /\ UNCHANGED ctx
                 ELSE /\ Proceed(issued)
                      /\ ctx' = [ctx EXCEPT !.version = local[branch].version]
    /\ UNCHANGED <<repoVars, vd, callVars>>

\* git merge --no-ff fromBranch
mergeFromBranch ==
    /\ Running("mergeFromBranch")
    /\ LET fromBranch == Arg
           issued == Issue("merge", fromBranch)
           theirs == IF fromBranch \in DOMAIN local THEN local[fromBranch] ELSE local[current]
       IN  \E err \in BOOLEAN, merged \in MergeResults(local[current], theirs) :
              /\ fromBranch \notin DOMAIN local => err
              /\ IF err
                 THEN handleError("ToolFailure", issued) /\ UNCHANGED <<local, reach, wt>>
                 ELSE /\ Proceed(issued)
                      /\ local' = [local EXCEPT ![current] = merged]
                      /\ reach' = [TipMoved(reach, current) EXCEPT
                                      ![current] = @ \cup reach[fromBranch]]
                      /\ wt' = merged
    /\ UNCHANGED <<remote, upstream, mergeHead, current, clean, tags, remoteTags,
                   lockFiles, ctx, vd, callVars>>

\* the branches after git commit --all: the working tree becomes the tip, and
\* a staged merge is concluded
LocalAfterCommit == [local EXCEPT ![current] = wt]

ReachAfterCommit ==
    LET moved == TipMoved(reach, current)
    IN  IF mergeHead # Null /\ mergeHead \in DOMAIN reach
        THEN [moved EXCEPT ![current] = @ \cup reach[mergeHead]]
        ELSE moved

\* commit(git, version) of lib/release-branch-scripts.js
commit ==
    /\ Running("commit")
    /\ \E err \in BOOLEAN :
          IF err
          THEN handleError("ToolFailure", Issue("commit", current))
               /\ UNCHANGED <<local, reach, mergeHead>>
          ELSE /\ Proceed(Issue("commit", current))
               /\ local' = LocalAfterCommit
               /\ reach' = ReachAfterCommit
               /\ mergeHead' = Null
    /\ UNCHANGED <<remote, upstream, current, wt, clean, tags, remoteTags,
                   lockFiles, ctx, vd, callVars>>

\* git tag -a version, then git push --tags
createAndPushTag ==
    /\ Running("createAndPushTag")
    /\ LET version == Arg
       IN  \E outcome \in {"tagFails", "pushFails", "ok"} :
              /\ version \in tags => outcome = "tagFails"
              /\ CASE outcome = "tagFails" ->
                        /\ handleError("ToolFailure", Issue("tag", version))
                        /\ UNCHANGED <<tags, remoteTags>>
                   [] outcome = "pushFails" ->
                        /\ handleError("ToolFailure",
                                       Issue("tag", version) \o <<(<<"pushTags", "">>)>>)
                        /\ tags' = tags \cup {version}
                        /\ UNCHANGED remoteTags
                   [] outcome = "ok" ->
                        /\ Proceed(Issue("tag", version) \o <<(<<"pushTags", "">>)>>)
                        /\ tags' = tags \cup {version}
                        /\ remoteTags' = remoteTags \cup tags \cup {version}
    /\ UNCHANGED <<remote, local, upstream, reach, mergeHead, current, wt, clean,
                   lockFiles, ctx, vd, callVars>>

\* the remote after a push of a local branch
RemoteAfterPush(branches, branch) ==
    [b \in DOMAIN remote \cup {branch} |->
        IF b = branch THEN branches[branch] ELSE remote[b]]

\* git push: the current branch goes to the branch it tracks
push ==
    /\ Running("push")
    /\ \E err \in BOOLEAN :
          /\ current \notin upstream => err
          /\ IF err
             THEN handleError("ToolFailure", Issue("push", current)) /\ UNCHANGED remote
             ELSE /\ Proceed(Issue("push", current))
                  /\ remote' = RemoteAfterPush(local, current)
    /\ UNCHANGED <<local, upstream, reach, mergeHead, current, wt, clean, tags,
                   remoteTags, lockFiles, ctx, vd, callVars>>

\* git commit --all, then git push origin branch; no caller passes setUpstream
commitAndPush ==
    /\ Running("commitAndPush")
    /\ LET branch == Arg
       IN  \E outcome \in {"commitFails", "pushFails", "ok"} :
              /\ outcome = "ok" => branch \in DOMAIN local
              /\ CASE outcome = "commitFails" ->
                        /\ handleError("ToolFailure", Issue("commit", current))
                        /\ UNCHANGED <<remote, local, reach, mergeHead>>
                   [] outcome = "pushFails" ->
                        /\ handleError("ToolFailure",
                                       Issue("commit", current) \o <<(<<"push", branch>>)>>)
                        /\ local' = LocalAfterCommit /\ reach' = ReachAfterCommit
                        /\ mergeHead' = Null
                        /\ UNCHANGED remote
                   [] outcome = "ok" ->
                        /\ Proceed(Issue("commit", current) \o <<(<<"push", branch>>)>>)
                        /\ local' = LocalAfterCommit /\ reach' = ReachAfterCommit
                        /\ mergeHead' = Null
                        /\ remote' = RemoteAfterPush(LocalAfterCommit, branch)
    /\ UNCHANGED <<upstream, current, wt, clean, tags, remoteTags, lockFiles, ctx, vd, callVars>>

\* git push origin --delete branch, then git branch -d branch, which refuses
\* the checked-out branch and a branch that is not merged into HEAD
deleteBranch ==
    /\ Running("deleteBranch")
    /\ LET branch == Arg
           canDeleteLocal == /\ branch \in DOMAIN local
                             /\ branch # current
                             /\ branch \in reach[current]
       IN  \E outcome \in {"remoteFails", "localFails", "ok"} :
              /\ branch \notin DOMAIN remote => outcome = "remoteFails"
              /\ outcome = "ok" => canDeleteLocal
              /\ CASE outcome = "remoteFails" ->
                        /\ handleError("ToolFailure", Issue("deleteRemote", branch))
                        /\ UNCHANGED <<remote, local, upstream, reach>>
                   [] outcome = "localFails" ->
                        /\ handleError("ToolFailure",
                                       Issue("deleteRemote", branch)
                                           \o <<(<<"deleteLocal", branch>>)>>)
                        /\ remote' = Without(remote, branch)
                        /\ UNCHANGED <<local, upstream, reach>>
                   [] outcome = "ok" ->
                        /\ Proceed(Issue("deleteRemote", branch)
                                       \o <<(<<"deleteLocal", branch>>)>>)
                        /\ remote' = Without(remote, branch)
                        /\ local' = Without(local, branch)
                        /\ upstream' = upstream \ {branch}
                        /\ reach' = [b \in DOMAIN reach \ {branch} |-> reach[b] \ {branch}]
    /\ UNCHANGED <<mergeHead, current, wt, clean, tags, remoteTags, lockFiles, ctx, vd, callVars>>

\* a variant that never finds the branch on the remote
CheckRemoteBranchExistsNever ==
    /\ Running("checkRemoteBranchExists")
    /\ \E err \in BOOLEAN :
          IF err THEN handleError("ToolFailure", Issue("ls-remote", ""))
          ELSE Proceed(Issue("ls-remote", ""))
    /\ UNCHANGED <<repoVars, ctx, vd, callVars>>

\* git ls-remote --heads, result.includes(`refs/heads/${branchName}`); the
\* caller ends the process when the answer is true
checkRemoteBranchExists ==
    /\ Running("checkRemoteBranchExists")
    /\ LET branchName == Arg
           issued == Issue("ls-remote", "")
           result == ListRemote(DOMAIN remote)
           remoteBranchExists == Includes(result, "refs/heads/" \o branchName)
       IN  \E err \in BOOLEAN :
              IF err THEN handleError("ToolFailure", issued)
              ELSE IF remoteBranchExists
                   THEN Exit(1, "WorkflowAlreadyInProgress", issued)
                   ELSE Proceed(issued)
    /\ UNCHANGED <<repoVars, ctx, vd, callVars>>

\* git checkout -b release develop
createReleaseBranch ==
    /\ Running("createReleaseBranch")
    /\ \E err \in BOOLEAN :
          /\ ("release" \in DOMAIN local \/ "develop" \notin DOMAIN local) => err
          /\ IF err
             THEN handleError("ToolFailure", Issue("createBranch", "release"))
                  /\ UNCHANGED <<local, reach, current, wt>>
             ELSE /\ Proceed(Issue("createBranch", "release"))
                  /\ local' = local @@ ("release" :> local["develop"])
                  /\ reach' = [b \in DOMAIN reach \cup {"release"} |->
                                 IF b = "release" THEN reach["develop"] \cup {"release"}
                                 ELSE IF "develop" \in reach[b]
                                      THEN reach[b] \cup {"release"} ELSE reach[b]]
                  /\ current' = "release"
                  /\ wt' = local["develop"]
    /\ UNCHANGED <<remote, upstream, mergeHead, clean, tags, remoteTags, lockFiles,
                   ctx, vd, callVars>>

\* git checkout -b `${branchType}/${branchName}`
createBranch ==
    /\ Running("createBranch")
    /\ LET branch == Arg
       IN  \E err \in BOOLEAN :
              /\ branch \in DOMAIN local => err
              /\ IF err
                 THEN handleError("ToolFailure", Issue("createBranch", branch))
                      /\ UNCHANGED <<local, reach, current>>
                 ELSE /\ Proceed(Issue("createBranch", branch))
                      /\ local' = local @@ (branch :> local[current])
                      /\ reach' = [b \in DOMAIN reach \cup {branch} |->
                                     IF b = branch THEN reach[current] \cup {branch}
                                     ELSE IF current \in reach[b]
                                          THEN reach[b] \cup {branch} ELSE reach[b]]
                      /\ current' = branch
    /\ UNCHANGED <<remote, upstream, mergeHead, wt, clean, tags, remoteTags, lockFiles,
                   ctx, vd, callVars>>

\* git push origin branch --set-upstream
pushNewBranch ==
    /\ Running("pushNewBranch")
    /\ LET branch == Arg
       IN  \E err \in BOOLEAN :
              /\ branch \notin DOMAIN local => err
              /\ IF err
                 THEN handleError("ToolFailure", Issue("push", branch))
                      /\ UNCHANGED <<remote, upstream>>
                 ELSE /\ Proceed(Issue("push", branch))
                      /\ remote' = RemoteAfterPush(local, branch)
                      /\ upstream' = upstream \cup {branch}
    /\ UNCHANGED <<local, reach, mergeHead, current, wt, clean, tags, remoteTags,
                   lockFiles, ctx, vd, callVars>>

\* a variant that wants the branch type at the start of the name
BranchMatchesPrefix(branch, branchType) == StartsWith(branch, branchType)

\* finishTopicBranch: branch.search(branchType) !== -1, the branch type
\* occurs somewhere in the name
BranchMatches(branch, branchType) == Includes(branch, branchType)

\* git branch, data["current"]; finishTopicBranch then searches the name for
\* the branch type
getCurrentBranchName ==
    /\ Running("getCurrentBranchName")
    /\ LET issued == Issue("branch", "")
           branch == current
           branchType == BranchTypeOf(cmd.name)
       IN  \E err \in BOOLEAN :
              IF err THEN handleError("ToolFailure", issued) /\ UNCHANGED ctx
              ELSE IF ~BranchMatches(branch, branchType)
                   THEN handleError("WrongBranch", issued) /\ UNCHANGED ctx
                   ELSE /\ Proceed(issued)
                        /\ ctx' = [ctx EXCEPT !.currentBranch = branch]
    /\ UNCHANGED <<repoVars, vd, callVars>>

\* git pull origin develop --no-rebase: the remote develop is merged into the
\* current branch
updateBranchWithDevelop ==
    /\ Running("updateBranchWithDevelop")
    /\ LET issued == Issue("pull", "origin develop")
           theirs == IF "develop" \in DOMAIN remote THEN remote["develop"]
                     ELSE local[current]
       IN  \E err \in BOOLEAN, merged \in MergeResults(local[current], theirs) :
              /\ "develop" \notin DOMAIN remote => err
              /\ IF err
                 THEN handleError("ToolFailure", issued) /\ UNCHANGED <<local, reach, wt>>
                 ELSE /\ Proceed(issued)
                      /\ local' = [local EXCEPT ![current] = merged]
                      /\ reach' = IF merged # local[current]
                                  THEN TipMoved(reach, current) ELSE reach
                      /\ wt' = merged
    /\ UNCHANGED <<remote, upstream, mergeHead, current, clean, tags, remoteTags,
                   lockFiles, ctx, vd, callVars>>

\* git merge branch develop --no-edit --no-commit with --no-ff or --squash:
\* the result is staged, nothing is committed
mergeToDevelop ==
    /\ Running("mergeToDevelop")
    /\ LET branch == Arg
           issued == Issue("merge", branch)
           theirs == IF branch \in DOMAIN local THEN local[branch] ELSE local[current]
       IN  \E err \in BOOLEAN, merged \in MergeResults(local[current], theirs) :
              /\ branch \notin DOMAIN local => err
              /\ IF err
                 THEN handleError("ToolFailure", issued) /\ UNCHANGED <<mergeHead, wt>>
                 ELSE /\ Proceed(issued)
                      /\ mergeHead' = IF cmd.squash THEN Null ELSE branch
                      /\ wt' = merged
    /\ UNCHANGED <<remote, local, upstream, reach, current, clean, tags, remoteTags,
                   lockFiles, ctx, vd, callVars>>

(***************************************************************************)
(* Steps on the manifest                                                   *)
(***************************************************************************)

\* require(packageJsonPath): the file as it is at the first call, the cached
\* object afterwards
Require == IF ctx.loaded THEN ctx.packageJsonFile ELSE wt

\* a variant that lets every manifest pass
ValidateDependenciesNeverFails ==
    /\ Running("validateDependencies")
    /\ ctx' = [ctx EXCEPT !.loaded = TRUE, !.packageJsonFile = Require]
    /\ Proceed(ops)
    /\ UNCHANGED <<repoVars, vd, callVars>>

\* validateDependencies('main', packagesToExcludeFromVersionValidation) in
\* finishReleaseBranch
validateDependencies ==
    /\ Running("validateDependencies")
    /\ LET packageJson == Require
           invalidDeps == InvalidDeps(packageJson, Arg, cmd.exclude)
       IN  /\ ctx' = [ctx EXCEPT !.loaded = TRUE, !.packageJsonFile = packageJson,
                                 !.invalidDeps = invalidDeps]
           /\ IF invalidDeps # {}
              THEN handleError("InvalidDependencies", ops)
              ELSE Proceed(ops)
    /\ UNCHANGED <<repoVars, vd, callVars>>

\* finishReleaseBranch: getVersionFromBranch(branchName), then
\* branchVersion = getVersionCore(version) and sourceBranch = branchName
getBranchVersion ==
    /\ Running("getBranchVersion")
    /\ LET branchName == Arg
           issued == Issue("show", branchName)
       IN  \E err \in BOOLEAN :
              /\ branchName \notin DOMAIN local => err
              /\ IF err
                 THEN handleError("ToolFailure", issued) /\ UNCHANGED ctx
                 ELSE LET version == local[branchName].version
                          branchVersion == getVersionCore(version)
                      IN  IF Falsy(branchVersion)
                          THEN /\ handleError("InvalidVersionFormat", issued)
                               /\ ctx' = [ctx EXCEPT !.sourceVersion = version,
                                                     !.branchVersion = branchVersion]
                          ELSE /\ Proceed(issued)
                               /\ ctx' = [ctx EXCEPT !.sourceVersion = version,
                                                     !.branchVersion = branchVersion,
                                                     !.sourceBranch = branchName]
    /\ UNCHANGED <<repoVars, vd, callVars>>

\* npm version <version> --allow-same-version --no-git-tag-version: fails on
\* a version that is not valid, writes the version field otherwise
NpmVersion(version, then) ==
    \E err \in BOOLEAN :
        /\ Falsy(SemverValid(version)) => err
        /\ IF err
           THEN handleError("ToolFailure", Issue("npm version", version)) /\ UNCHANGED wt
           ELSE /\ wt' = [wt EXCEPT !.version = SemverValid(version)]
                /\ then

\* changePackageJsonVersion(version)
changePackageJsonVersion ==
    /\ Running("changePackageJsonVersion")
    /\ NpmVersion(Arg, Proceed(Issue("npm version", Arg)))
    /\ UNCHANGED <<remote, local, upstream, reach, mergeHead, current, clean, tags,
                   remoteTags, lockFiles, ctx, vd, callVars>>

\* finishReleaseBranch: incVersion = getIncrementedPatchVersion(version), then
\* changePackageJsonVersion(incVersion)
setIncrementedVersion ==
    /\ Running("setIncrementedVersion")
    /\ \E incVersion \in {getIncrementedPatchVersion(Arg)} :
           IF Falsy(incVersion)
           THEN handleError("InvalidVersionFormat", ops) /\ UNCHANGED wt
           ELSE NpmVersion(incVersion, Proceed(Issue("npm version", incVersion)))
    /\ UNCHANGED <<remote, local, upstream, reach, mergeHead, current, clean, tags,
                   remoteTags, lockFiles, ctx, vd, callVars>>

\* bin/release-start.js: the version given on the command line, if any, is set
setSpecifiedVersion ==
    /\ Running("setSpecifiedVersion")
    /\ IF cmd.specifiedVersion # ""
       THEN NpmVersion(cmd.specifiedVersion,
                       Proceed(Issue("npm version", cmd.specifiedVersion)))
       ELSE Proceed(ops) /\ UNCHANGED wt
    /\ UNCHANGED <<remote, local, upstream, reach, mergeHead, current, clean, tags,
                   remoteTags, lockFiles, ctx, vd, callVars>>

\* bin/hotfix-start.js: hotfixVersion = getIncrementedPatchVersion(version),
\* then createHotfixBranch: git checkout -b hotfix main and npm version
createHotfixBranch ==
    /\ Running("createHotfixBranch")
    /\ \E hotfixVersion \in {getIncrementedPatchVersion(Arg)} :
           IF Falsy(hotfixVersion)
           THEN /\ handleError("InvalidVersionFormat", ops)
                /\ UNCHANGED <<local, reach, current, wt, ctx>>
           ELSE \E err \in BOOLEAN :
                   /\ ("hotfix" \in DOMAIN local \/ "main" \notin DOMAIN local) => err
                   /\ IF err
                      THEN /\ handleError("ToolFailure", Issue("createBranch", "hotfix"))
                           /\ UNCHANGED <<local, reach, current, wt, ctx>>
                      ELSE /\ local' = local @@ ("hotfix" :> local["main"])
                           /\ reach' = [b \in DOMAIN reach \cup {"hotfix"} |->
                                          IF b = "hotfix" THEN reach["main"] \cup {"hotfix"}
                                          ELSE IF "main" \in reach[b]
                                               THEN reach[b] \cup {"hotfix"} ELSE reach[b]]
                           /\ current' = "hotfix"
                           /\ ctx' = [ctx EXCEPT !.version = hotfixVersion]
                           /\ \E failed \in BOOLEAN :
                                 LET issued == Issue("createBranch", "hotfix")
                                                   \o <<(<<"npm version", hotfixVersion>>)>>
                                 IN  IF failed
                                     THEN /\ handleError("ToolFailure", issued)
                                          /\ wt' = local["main"]
                                     ELSE /\ Proceed(issued)
                                          /\ wt' = [local["main"] EXCEPT
                                                       !.version = hotfixVersion]
    /\ UNCHANGED <<remote, upstream, mergeHead, clean, tags, remoteTags, lockFiles, vd, callVars>>

\* a variant that looks at the dependencies whatever lock file is there
CheckPackageJsonVersionsAlways ==
    /\ Running("checkPackageJsonVersions")
    /\ IF hasNotStableDependencies(ctx.packageJsonFile)
       THEN handleError("NotStableDependencies", ops)
       ELSE Proceed(ops)
    /\ UNCHANGED <<repoVars, ctx, vd, callVars>>

\* bin/release-start.js, checkPackageJsonVersions: the dependencies are
\* looked at only when none of the three lock files is there
checkPackageJsonVersions ==
    /\ Running("checkPackageJsonVersions")
    /\ IF "package-lock.json" \in lockFiles THEN Proceed(ops)
       ELSE IF "npm-shrinkwrap.json" \in lockFiles THEN Proceed(ops)
       ELSE IF "yarn.lock" \in lockFiles THEN Proceed(ops)
       ELSE IF hasNotStableDependencies(ctx.packageJsonFile)
            THEN handleError("NotStableDependencies", ops)
            ELSE Proceed(ops)
    /\ UNCHANGED <<repoVars, ctx, vd, callVars>>

\* updatePackageJsonDistTagDependencies: the required object is changed in
\* place; updated tells whether some entry was replaced
UpdatePackageJson(predicate, newVersion) ==
    LET packageJsonFile == Require
    IN  [updated |-> UpdatedPackages(packageJsonFile, predicate) # {},
         packageJsonFile |-> RewrittenManifest(packageJsonFile, predicate, newVersion)]

\* updateDistTagsDependencies(isLernaProject, version => version === 'dev', 'next'):
\* when an entry was replaced the object is written out whole; updateLockFile
\* is false
updateDistTagsDependencies ==
    /\ Running("updateDistTagsDependencies")
    /\ LET result == UpdatePackageJson("isDev", Arg)
           issued == Issue("writeFile", "package.json")
       IN  /\ ctx' = [ctx EXCEPT !.loaded = TRUE,
                                 !.packageJsonFile = result.packageJsonFile]
           /\ IF result.updated
              THEN \E err \in BOOLEAN :
                      IF err THEN Exit(1, "ToolFailure", issued) /\ UNCHANGED wt
                      ELSE Proceed(issued) /\ wt' = result.packageJsonFile
              ELSE Proceed(ops) /\ UNCHANGED wt
    /\ UNCHANGED <<remote, local, upstream, reach, mergeHead, current, clean, tags,
                   remoteTags, lockFiles, vd, callVars>>

\* updateDistTagsDependenciesAndLockFiles(isLernaProject,
\*     version => version.startsWith('feature') || version.startsWith('bugfix'), 'dev'):
\* when an entry was replaced the object is written out whole and npm update
\* is run for the updated packages
updateDistTagsDependenciesAndLockFiles ==
    /\ Running("updateDistTagsDependenciesAndLockFiles")
    /\ LET result == UpdatePackageJson("isTopic", Arg)
           written == Issue("writeFile", "package.json")
           updated == written \o <<(<<"npm update", "">>)>>
       IN  /\ ctx' = [ctx EXCEPT !.loaded = TRUE,
                                 !.packageJsonFile = result.packageJsonFile]
           /\ IF result.updated
              THEN \E outcome \in {"writeFails", "updateFails", "ok"} :
                      CASE outcome = "writeFails" ->
                              Exit(1, "ToolFailure", written) /\ UNCHANGED wt
                        [] outcome = "updateFails" ->
                              Exit(1, "ToolFailure", updated)
                              /\ wt' = result.packageJsonFile
                        [] outcome = "ok" ->
                              Proceed(updated) /\ wt' = result.packageJsonFile
              ELSE Proceed(ops) /\ UNCHANGED wt
    /\ UNCHANGED <<remote, local, upstream, reach, mergeHead, current, clean, tags,
                   remoteTags, lockFiles, vd, callVars>>

\* the last promise of the chain has resolved: the process ends with code 0
Complete ==
    /\ status = "running"
    /\ pc = Len(Program(cmd)) + 1
    /\ status' = "completed"
    /\ exitCode' = 0
    /\ UNCHANGED <<repoVars, cmd, start, pc, failure, ops, ctx, vd, callVars>>

Next ==
    \/ LaunchReleaseStart \/ LaunchHotfixStart \/ LaunchFinishRelease
    \/ LaunchStartTopic \/ LaunchFinishTopic
    \/ checkUncommittedChanges \/ switchToBranchAndPull \/ getVersionFromBranch
    \/ mergeFromBranch \/ commit \/ createAndPushTag \/ push \/ commitAndPush
    \/ deleteBranch \/ checkRemoteBranchExists \/ createReleaseBranch
    \/ createBranch \/ pushNewBranch \/ getCurrentBranchName
    \/ updateBranchWithDevelop \/ mergeToDevelop
    \/ validateDependencies \/ getBranchVersion \/ changePackageJsonVersion
    \/ setIncrementedVersion \/ setSpecifiedVersion \/ createHotfixBranch
    \/ checkPackageJsonVersions \/ updateDistTagsDependencies
    \/ updateDistTagsDependenciesAndLockFiles \/ Complete

Spec == Init /\ [][Next]_vars

(***************************************************************************)
(* The workflows: properties                                               *)
(***************************************************************************)

\* some command of one of the kinds has been issued
Issued(kinds) == \E i \in 1..Len(ops) : ops[i][1] \in kinds

\* the process has ended with a non-zero exit code
Failed == status = "exited" /\ exitCode # 0

\* greatest MAJOR, MINOR or PATCH number the version cores are looked for among
MaxPart == 5

\* the version's core is the given MAJOR.MINOR.PATCH text
HasCore(version, core) ==
    \/ version = core
    \/ StartsWith(version, core \o "-")
    \/ StartsWith(version, core \o "+")

ReleaseFinishCommands == {"release-finish", "hotfix-finish"}

\* C1: when release-finish (hotfix-finish) has run to completion from a source
\* branch whose manifest version has the core M.m.p, main's manifest version
\* is M.m.p locally and on the remote, the tag M.m.p exists locally and on
\* the remote, develop's manifest version is M.m.(p+1) locally and on the
\* remote, and the source branch exists neither locally nor on the remote.
C1_FinishPostconditions ==
    (status = "completed" /\ cmd.name \in ReleaseFinishCommands) =>
        LET source == BranchTypeOf(cmd.name)
        IN  \E major, minor, patch \in 0..MaxPart :
               LET core == FormatCore(major, minor, patch)
                   next == FormatCore(major, minor, patch + 1)
               IN  /\ HasCore(start.remote[source].version, core)
                   /\ local["main"].version = core
                   /\ remote["main"].version = core
                   /\ core \in tags /\ core \in remoteTags
                   /\ local["develop"].version = next
                   /\ remote["develop"].version = next
                   /\ source \notin DOMAIN local
                   /\ source \notin DOMAIN remote

\* release-finish has completed from release at 2.3.0-next.0
C1_Witness ==
    /\ status = "completed" /\ cmd.name = "release-finish"
    /\ start.remote["release"].version = "2.3.0-next.0"
    /\ remote["main"].version = "2.3.0" /\ "2.3.0" \in remoteTags
    /\ remote["develop"].version = "2.3.1"
    /\ "release" \notin DOMAIN local \cup DOMAIN remote

\* C2: when the working tree is not clean, each of the eight workflows issues
\* nothing but the status check and the invocation fails.
C2_DirtyTreeFails ==
    ~clean =>
        /\ \A i \in 1..Len(ops) : ops[i][1] = "status"
        /\ status # "running" => Failed

StartedWhileInProgress ==
    /\ cmd.name \in {"release-start", "hotfix-start"}
    /\ BranchTypeOf(cmd.name) \in DOMAIN start.remote

\* C3: release-start (hotfix-start) invoked while release (hotfix) exists on
\* the remote never completes, ends with exit code 1 - because of the branch
\* found on the remote unless an earlier check or a git command failed -,
\* creates no branch, commits and pushes nothing, and leaves the branches as
\* they were; no step of a start command creates a release or hotfix branch
\* while the remote has one.
C3_NoSecondBranch ==
    /\ [](StartedWhileInProgress =>
            /\ status # "completed"
            /\ status = "exited" => exitCode = 1
            /\ failure \in {"", "InvalidArgument", "UncommittedChanges", "ToolFailure",
                            "WorkflowAlreadyInProgress"}
            /\ ~Issued({"createBranch", "commit", "push"})
            /\ DOMAIN remote = DOMAIN start.remote
            /\ DOMAIN local = DOMAIN start.local)
    /\ [][\A b \in {"release", "hotfix"} :
            (cmd.name \in StartCommands /\ b \in DOMAIN remote)
            => ~(b \notin DOMAIN local /\ b \in DOMAIN local')]_vars

\* release-start has found release on the remote and ended
C3_Witness ==
    /\ cmd.name = "release-start" /\ "release" \in DOMAIN start.remote
    /\ status = "exited" /\ failure = "WorkflowAlreadyInProgress"

\* C4: each finish command fails, before any pull, checkout, merge, commit,
\* push or delete, when the name of the branch checked out at invocation does
\* not begin with feature, bugfix, release or hotfix respectively.
C4_WrongBranchByPrefix ==
    (cmd.name \in FinishCommands
     /\ ~StartsWith(start.current, BranchTypeOf(cmd.name))) =>
        /\ ~Issued({"pull", "checkout", "merge", "commit", "push", "deleteRemote",
                    "deleteLocal"})
        /\ status # "running" => Failed

\* C4, as the code has it: feature-finish and bugfix-finish fail, having
\* issued nothing but the status check and the branch query, when the name of
\* the branch checked out at invocation does not contain feature (bugfix)
\* anywhere, and never report a wrong branch when it does; release-finish and
\* hotfix-finish never ask for the current branch and never report a wrong
\* branch.
C4_WrongBranchBySearch ==
    /\ (cmd.name \in {"feature-finish", "bugfix-finish"}
        /\ ~Includes(start.current, BranchTypeOf(cmd.name))) =>
            /\ \A i \in 1..Len(ops) : ops[i][1] \in {"status", "branch"}
            /\ status # "running" =>
                  /\ Failed
                  /\ failure \in {"UncommittedChanges", "ToolFailure", "WrongBranch"}
            /\ pc <= 2
    /\ (cmd.name \in {"feature-finish", "bugfix-finish"}
        /\ Includes(start.current, BranchTypeOf(cmd.name))) =>
            failure # "WrongBranch"
    /\ cmd.name \in ReleaseFinishCommands =>
            failure # "WrongBranch" /\ ~Issued({"branch"})

\* feature-finish on a bugfix branch has ended with WrongBranch
C4_Witness ==
    /\ cmd.name = "feature-finish" /\ start.current = "bugfix/y"
    /\ status = "exited" /\ failure = "WrongBranch"

\* C9: when dependency validation fails in release-finish or hotfix-finish,
\* no pull, merge, commit, tag, push, manifest write or branch deletion has
\* been issued.
C9_AbortBeforeAnyChange ==
    failure = "InvalidDependencies" =>
        ~Issued({"pull", "merge", "commit", "tag", "pushTags", "push", "npm version",
                 "writeFile", "deleteRemote", "deleteLocal"})

\* C9, as the code has it: when dependency validation fails, exactly the
\* status check, the checkout of the source branch and its pull have been
\* issued; the remote and the tags are as they were; and whenever the source
\* branch's manifest holds a dependency that main policy forbids and that is
\* not excluded, no merge, commit, tag, push, manifest write or deletion is
\* ever issued and the workflow does not complete.
C9_AbortAfterSwitch ==
    /\ failure = "InvalidDependencies" =>
          /\ cmd.name \in ReleaseFinishCommands
          /\ ops = << <<"status", "">>, <<"checkout", BranchTypeOf(cmd.name)>>,
                      <<"pull", BranchTypeOf(cmd.name)>> >>
          /\ remote = start.remote
          /\ tags = {"1.2.3"} /\ remoteTags = {"1.2.3"}
          /\ status = "exited" /\ exitCode = 1
    /\ (/\ cmd.name \in ReleaseFinishCommands
        /\ BranchTypeOf(cmd.name) \in DOMAIN start.remote
        /\ InvalidDeps(start.remote[BranchTypeOf(cmd.name)], "main", cmd.exclude) # {}) =>
          /\ ~Issued({"merge", "commit", "tag", "pushTags", "push", "npm version",
                      "writeFile", "deleteRemote", "deleteLocal"})
          /\ status # "completed"

\* release-finish has ended on @mui/lab@alpha-1
C9_Witness ==
    /\ cmd.name = "release-finish" /\ failure = "InvalidDependencies"
    /\ ctx.invalidDeps = {"@mui/lab@alpha-1"}
    /\ Issued({"pull"})

\* the manifest release-start is invoked on
ManifestAtStart == start.local[start.current]

\* C10: whenever develop's manifest holds a dependency that main policy
\* forbids, release-start fails and neither creates nor pushes a release
\* branch, whether or not a lock file is present.
C10_StabilityAlwaysChecked ==
    (cmd.name = "release-start"
     /\ InvalidDeps(start.remote["develop"], "main", {}) # {}) =>
        /\ ~Issued({"createBranch", "push"})
        /\ status # "completed"

\* C10, as the code has it: release-start looks at the dependencies only when
\* none of package-lock.json, npm-shrinkwrap.json and yarn.lock is in the
\* working tree, after the status check, the remote check and the switch to
\* develop, and it looks at the manifest loaded when the command was invoked:
\* it ends with NotStableDependencies exactly on an entry that is no git URL
\* and does not begin with digits.digits.digit or contains dev; then no
\* release branch is created or pushed.  With a lock file present it never
\* ends so.
C10_StabilityCheckedWithoutLockFile ==
    cmd.name = "release-start" =>
        /\ failure = "NotStableDependencies" =>
              /\ lockFiles = {}
              /\ hasNotStableDependencies(ManifestAtStart)
              /\ ops = << <<"status", "">>, <<"ls-remote", "">>,
                          <<"checkout", "develop">>, <<"pull", "develop">> >>
              /\ status = "exited" /\ exitCode = 1
        /\ (lockFiles = {} /\ hasNotStableDependencies(ManifestAtStart)) =>
              /\ ~Issued({"createBranch", "commit", "push"})
              /\ "release" \in DOMAIN remote => "release" \in DOMAIN start.remote
              /\ status # "completed"
        /\ (lockFiles = {} /\ ~hasNotStableDependencies(ManifestAtStart)) =>
              failure # "NotStableDependencies"

\* release-start has ended on a dependency that is not stable
C10_Witness ==
    /\ cmd.name = "release-start" /\ failure = "NotStableDependencies"
    /\ lockFiles = {} /\ status = "exited"

\* release-start has run to completion
ReleaseStarted ==
    /\ cmd.name = "release-start" /\ status = "completed"
    /\ "release" \in DOMAIN local /\ "release" \in DOMAIN remote

\* C11: release-start given a version argument that is no valid semantic
\* version, or that carries a prerelease or build part, ends with exit code 1
\* before any command is issued: no status check, checkout, branch creation,
\* commit or push, and the repository is as it was.
C11_BadVersionArgument ==
    (/\ cmd.name = "release-start"
     /\ cmd.specifiedVersion # ""
     /\ ~IsVersionCore(cmd.specifiedVersion)) =>
        /\ ops = <<>> /\ pc = 0
        /\ status # "completed"
        /\ status = "exited" => (exitCode = 1 /\ failure = "InvalidArgument")
        /\ remote = start.remote /\ local = start.local /\ current = start.current

\* release-start 3.0.0+b1 has ended on its argument
C11_Witness ==
    /\ cmd.name = "release-start" /\ cmd.specifiedVersion = "3.0.0+b1"
    /\ status = "exited" /\ exitCode = 1 /\ ops = <<>>

\* C12: when release-start is given a valid version V and runs to completion,
\* the manifest version committed on release and pushed is V, whatever
\* develop's manifest holds.
C12_ExplicitVersionCommitted ==
    (ReleaseStarted /\ cmd.specifiedVersion # "") =>
        /\ local["release"].version = cmd.specifiedVersion
        /\ remote["release"].version = cmd.specifiedVersion

\* C13: when release-start is invoked without a version and runs to
\* completion, the manifest version on release is the version core of
\* develop's manifest version.
C13_InheritsVersionCore ==
    (ReleaseStarted /\ cmd.specifiedVersion = "") =>
        \E major, minor, patch \in 0..MaxPart :
           LET core == FormatCore(major, minor, patch)
           IN  /\ HasCore(start.remote["develop"].version, core)
               /\ local["release"].version = core
               /\ remote["release"].version = core

\* the dependency maps of after are those of before with every entry that
\* satisfies matches replaced by tag and every other entry as it was
Retagged(before, after, matches(_), tag) ==
    \A type \in DependencyTypes :
        /\ DOMAIN after[type] = DOMAIN before[type]
        /\ \A pkg \in DOMAIN before[type] :
              after[type][pkg] =
                  IF matches(before[type][pkg]) THEN tag ELSE before[type][pkg]

IsDevTag(specifier) == specifier = "dev"

\* C14: after release-start completes, every dependency entry of the manifest
\* on release that was exactly dev on develop is next, every other entry is
\* as on develop, and no entry equal to dev remains.
C14_DevBecomesNext ==
    ReleaseStarted =>
        /\ Retagged(start.remote["develop"], local["release"], IsDevTag, "next")
        /\ Retagged(start.remote["develop"], remote["release"], IsDevTag, "next")
        /\ \A e \in Entries(remote["release"]) : e[3] # "dev"

IsTopicTag(specifier) ==
    StartsWith(specifier, "feature") \/ StartsWith(specifier, "bugfix")

TopicFinishCommands == {"feature-finish", "bugfix-finish"}

\* the manifests whose dependency maps the merge into develop can leave: a
\* merge that succeeds takes each file's maps from one of the two branches
MergedSides == {start.local[start.current], start.remote["develop"]}

TopicStartCommands == {"feature-start", "bugfix-start"}

\* the branch feature-start or bugfix-start is asked for
TopicBranchAsked == BranchTypeOf(cmd.name) \o "/" \o cmd.branchName

\* feature-start or bugfix-start has run to completion
TopicStarted ==
    /\ cmd.name \in TopicStartCommands /\ status = "completed"
    /\ TopicBranchAsked \in DOMAIN local /\ TopicBranchAsked \in DOMAIN remote

\* C16: feature-start(name) and bugfix-start(name) that run to completion
\* have created {type}/{name} from the updated develop, set its manifest
\* version to develop's version core followed by -{type}-{name}.0, committed
\* it, and pushed the branch with upstream tracking; develop's version is
\* unchanged.
C16_TopicStartSetsVersion ==
    (cmd.name \in TopicStartCommands /\ status = "completed") =>
        /\ TopicStarted
        /\ current = TopicBranchAsked /\ TopicBranchAsked \in upstream
        /\ \E major, minor, patch \in 0..MaxPart :
              LET core == FormatCore(major, minor, patch)
                  version == core \o "-" \o BranchTypeOf(cmd.name) \o "-"
                                  \o cmd.branchName \o ".0"
              IN  /\ HasCore(start.remote["develop"].version, core)
                  /\ local[TopicBranchAsked].version = version
                  /\ remote[TopicBranchAsked].version = version
        /\ Issued({"commit"})
        /\ remote["develop"] = start.remote["develop"]

\* a version that has a MAJOR.MINOR.PATCH core
HasSomeCore(version) ==
    \E major, minor, patch \in 0..MaxPart :
        HasCore(version, FormatCore(major, minor, patch))

\* C17: hotfix-start that runs to completion has created hotfix from the
\* updated main and committed on it main's manifest with the version set to
\* main's version core with the patch incremented by one; when main's
\* version is no semantic version hotfix-start ends with
\* InvalidVersionFormat and hotfix is neither created nor pushed.
C17_HotfixVersion ==
    /\ (cmd.name = "hotfix-start" /\ status = "completed") =>
          /\ "hotfix" \in DOMAIN local /\ "hotfix" \in DOMAIN remote
          /\ local["main"] = start.remote["main"]
          /\ \E major, minor, patch \in 0..MaxPart :
                LET incremented ==
                        [start.remote["main"] EXCEPT
                            !.version = FormatCore(major, minor, patch + 1)]
                IN  /\ HasCore(start.remote["main"].version,
                               FormatCore(major, minor, patch))
                    /\ local["hotfix"] = incremented
                    /\ remote["hotfix"] = incremented
    /\ (cmd.name = "hotfix-start" /\ ~HasSomeCore(start.remote["main"].version)) =>
          /\ status # "completed"
          /\ ~Issued({"createBranch", "npm version", "commit", "push"})
          /\ DOMAIN local \ {"main"} = DOMAIN start.local \ {"main"}
          /\ remote = start.remote
          /\ (status = "exited" /\ pc = 5) =>
                (failure = "InvalidVersionFormat" /\ exitCode = 1)

\* hotfix-start has completed on a main at 1.2.3-rc.1
C17_Witness ==
    /\ cmd.name = "hotfix-start" /\ status = "completed"
    /\ start.remote["main"].version = "1.2.3-rc.1"
    /\ remote["hotfix"].version = "1.2.4"

\* C18: after release-start or hotfix-start completes, the local branch it
\* created tracks the branch of the same name on the remote.
C18_NewBranchTracksRemote ==
    (cmd.name \in {"release-start", "hotfix-start"} /\ status = "completed") =>
        BranchTypeOf(cmd.name) \in upstream

\* C19: a command ends with exit code 0 only when all its steps succeeded and
\* with exit code 1 whenever it ends before its last step.
C19_UniformExitCodes ==
    /\ status = "exited" => exitCode = 1
    /\ (status # "running" /\ exitCode = 0) =>
          (status = "completed" /\ failure = "" /\ pc = Len(Program(cmd)) + 1)

\* C20: once a step fails the process has ended - a failure is never recorded
\* while the chain goes on -, and nothing happens after the end: every step
\* is taken by a running process.  The failing step itself adds at most its
\* own commands to those issued, goes to no later step of the chain, and
\* undoes nothing: no tag, local branch or remote branch disappears, except
\* the remote branch of a deletion that then fails locally.
C20_FailureEndsTheProcess ==
    /\ [](failure # "" => status = "exited")
    /\ [][/\ status = "running"
          /\ status' = "exited" =>
                /\ pc' = pc
                /\ Len(ops') \in Len(ops)..(Len(ops) + 2)
                /\ SubSeq(ops', 1, Len(ops)) = ops
                /\ tags \subseteq tags' /\ remoteTags \subseteq remoteTags'
                /\ DOMAIN local \subseteq DOMAIN local'
                /\ \A b \in DOMAIN remote \ DOMAIN remote' :
                      ops'[Len(ops')] = <<"deleteLocal", b>>
                /\ \A b \in DOMAIN remote \cap DOMAIN remote' : remote'[b] = remote[b]
         ]_vars

\* release-finish has ended on a failed push of main, the tag already pushed
C20_Witness ==
    /\ cmd.name = "release-finish" /\ status = "exited" /\ failure = "ToolFailure"
    /\ "2.3.0" \in remoteTags
    /\ remote["main"] = start.remote["main"]
    /\ ops[Len(ops)] = <<"push", "main">>

(***************************************************************************)
(* Termination.  Every step of a chain waits for one callback of git, npm  *)
(* or fs; the callback resolves the step's promise or ends the process.    *)
(* When each call returns, the step that waits for it is eventually taken. *)
(***************************************************************************)

SpecLive == Init /\ [][Next]_vars /\ WF_vars(Next)

Terminal == {"completed", "exited"}

\* C21: when every external call returns, every invocation ends, and stays,
\* either completed, with every step of its chain done, or exited by
\* process.exit at a failed step; it never stays in an intermediate step.
C21_InvocationEnds ==
    /\ <>[](status \in Terminal)
    /\ [](status = "completed" => pc = Len(Program(cmd)) + 1)
    /\ [](status = "exited" => failure # "" /\ pc <= Len(Program(cmd)))

\* an invocation that completed its chain, and one that a failure ended at
\* a step after the first
C21_Witness ==
    \/ status = "completed" /\ cmd.name = "hotfix-start" /\ Len(ops) > 2
    \/ status = "exited" /\ pc > 1 /\ failure = "ToolFailure"

(***************************************************************************)
(* The version helpers of npm-utils, called on their own.  A call takes a  *)
(* version string: a core built from three numbers, with or without a "v", *)
(* a prerelease part and build metadata, or a string that is no version.   *)
(***************************************************************************)

MaxPatch == 10

VersionSuffixes == {"", "-dev.0", "-rc.1", "+b1", "-rc.1+b2", "-feature-x.2"}

\* version strings with the numbers they were written from
ValidInputs ==
    { [text |-> prefix \o FormatCore(major, minor, patch) \o suffix, valid |-> TRUE,
       major |-> major, minor |-> minor, patch |-> patch] :
      prefix \in {"", "v"}, major \in {0, 1, 10}, minor \in {0, 9},
      patch \in 0..MaxPatch, suffix \in VersionSuffixes }

\* strings semver.parse rejects
InvalidInputs ==
    { [text |-> text, valid |-> FALSE, major |-> 0, minor |-> 0, patch |-> 0] :
      text \in {"not-a-version", "", "dev", "next", "1.2", "1.2.3.4", "01.2.3",
                "1.2.x", "1.2.3-", "1.2.3-01", "1.2.3+", "1.2.3-rc_1", "1..3",
                "feature-x", "x1.2.3"} }

VersionHelpers == {"getVersionCore", "getIncrementedPatchVersion"}

InitSemver ==
    /\ IdleProcess
    /\ vd = IdleCall
    /\ rw = NoCall /\ race = NoCall /\ lk = NoCall /\ cp = NoCall /\ inv = NoCall
    /\ mono = NoCall
    /\ sv \in { [pc |-> "call", fn |-> fn, version |-> input, result |-> Null] :
                 fn \in VersionHelpers, input \in ValidInputs \cup InvalidInputs }

\* getVersionCore(version) returns
CallGetVersionCore ==
    /\ sv.pc = "call" /\ sv.fn = "getVersionCore"
    /\ sv' = [sv EXCEPT !.pc = "returned", !.result = getVersionCore(sv.version.text)]
    /\ UNCHANGED <<repoVars, procVars, vd, rw, race, lk, cp, inv, mono>>

\* getIncrementedPatchVersion(version) returns
CallGetIncrementedPatchVersion ==
    /\ sv.pc = "call" /\ sv.fn = "getIncrementedPatchVersion"
    /\ sv' = [sv EXCEPT !.pc = "returned",
                        !.result = getIncrementedPatchVersion(sv.version.text)]
    /\ UNCHANGED <<repoVars, procVars, vd, rw, race, lk, cp, inv, mono>>

NextSemver == CallGetVersionCore \/ CallGetIncrementedPatchVersion

SpecSemver == InitSemver /\ [][NextSemver]_vars

Returned(fn) == sv.pc = "returned" /\ sv.fn = fn

\* C24: for a valid version string getIncrementedPatchVersion returns
\* major.minor.(patch+1), without prerelease part and build metadata; for a
\* string that is no version it returns null, the failure value, which is
\* no version.
C24_IncrementedPatch ==
    Returned("getIncrementedPatchVersion") =>
        /\ sv.version.valid =>
              sv.result = FormatCore(sv.version.major, sv.version.minor,
                                     sv.version.patch + 1)
        /\ ~sv.version.valid => sv.result = Null /\ ~SemverParse(sv.result).valid

\* 1.0.9-dev.0 gave 1.0.10, or not-a-version gave null
C24_Witness ==
    /\ Returned("getIncrementedPatchVersion")
    /\ \/ sv.version.text = "1.0.9-dev.0" /\ sv.result = "1.0.10"
       \/ sv.version.text = "not-a-version" /\ sv.result = Null

(***************************************************************************)
(* updateDistTagsDependencies of npm-utils, step by step.  The function    *)
(* starts the update of the root package.json and, in a lerna project, the *)
(* update of the packages, and goes on when both promises are resolved.    *)
(* Objects loaded with require stay in the module cache; the files are     *)
(* what is on disk.                                                        *)
(***************************************************************************)

RootFile == "package.json"
PackageFiles == {"packages/x/package.json", "packages/y/package.json"}

\* manifests of a root or of a package: no match, matches in one map, the
\* same package matching in two maps, and topic tags next to "next"
RewriteManifests ==
    { Manifest("1.0.0", [pkg \in {"a"} |-> "1.0.0"], NoDeps, NoDeps),
      Manifest("1.0.0", [pkg \in {"@org/a", "b"} |->
                            IF pkg = "b" THEN "1.0.0" ELSE "dev"], NoDeps, NoDeps),
      Manifest("1.0.0", [pkg \in {"@org/a"} |-> "dev"],
               [pkg \in {"@org/a", "c"} |-> IF pkg = "c" THEN "feature-x" ELSE "dev"],
               [pkg \in {"d"} |-> "dev"]),
      Manifest("1.0.0", [pkg \in {"a", "@org/c"} |->
                            IF pkg = "a" THEN "next" ELSE "bugfix-y"], NoDeps, NoDeps) }

\* the package.json files of a project
ManifestSets ==
    { [file \in {RootFile} |-> root] : root \in RewriteManifests }
    \cup { [file \in {RootFile} \cup PackageFiles |->
              IF file = RootFile THEN root ELSE packages[file]] :
           root \in RewriteManifests,
           packages \in [PackageFiles -> RewriteManifests] }

\* a promise that is not settled yet
Pending == {"<pending>"}

\* extractScopes(packages)
ExtractScopes(packages) ==
    { SplitFirst(pkg, "/").head : pkg \in { p \in packages : StartsWith(p, "@") } }

InitRewrite ==
    /\ IdleProcess
    /\ vd = IdleCall
    /\ sv = NoCall /\ race = NoCall /\ lk = NoCall /\ cp = NoCall /\ inv = NoCall
    /\ mono = NoCall
    /\ \E files \in ManifestSets, predicate \in {"isDev", "isTopic"},
          updateLockFile \in BOOLEAN :
          rw = [pc |-> "call", calls |-> 1,
                isLernaProject |-> DOMAIN files # {RootFile},
                predicate |-> predicate,
                newVersion |-> IF predicate = "isDev" THEN "next" ELSE "dev",
                updateLockFile |-> updateLockFile,
                files |-> files, cache |-> <<>>, original |-> files,
                before |-> files, first |-> files,
                inFlight |-> {}, issued |-> <<>>, written |-> {},
                results |-> <<>>, uniquePackages |-> {}]

\* require(path): the cached object, or the file's content on first use
Required(file) == IF file \in DOMAIN rw.cache THEN rw.cache[file] ELSE rw.files[file]

\* the cache after the objects of the given files were rewritten in place
CacheAfter(files) ==
    [file \in DOMAIN rw.cache \cup files |->
        IF file \in files
        THEN RewrittenManifest(Required(file), rw.predicate, rw.newVersion)
        ELSE rw.cache[file]]

\* updateDistTagsDependencies is called: updatePackageJsonDistTagDependencies
\* rewrites the root object and starts fs.writeFile when an entry changed;
\* in a lerna project updateLernaPackagesDistTagDependencies then starts
\* npx lerna list
CallUpdateDistTagsDependencies ==
    /\ rw.pc = "call"
    /\ LET updatedPackages == UpdatedPackages(Required(RootFile), rw.predicate)
           writes == IF updatedPackages # {} THEN {"writeFile"} ELSE {}
           lists == IF rw.isLernaProject THEN {"lerna list"} ELSE {}
       IN  rw' = [rw EXCEPT
                    !.pc = "pending",
                    !.cache = CacheAfter({RootFile}),
                    !.inFlight = writes \cup lists,
                    !.issued = (IF updatedPackages # {} THEN <<"writeFile">> ELSE <<>>)
                               \o (IF rw.isLernaProject THEN <<"lerna list">> ELSE <<>>),
                    !.results =
                        [promise \in {"root"} \cup (IF rw.isLernaProject
                                                    THEN {"lerna"} ELSE {}) |->
                            IF promise = "root" /\ updatedPackages = {}
                            THEN {} ELSE Pending],
                    !.uniquePackages = updatedPackages]
    /\ UNCHANGED <<repoVars, procVars, vd, sv, race, lk, cp, inv, mono>>

\* the callback of fs.writeFile: throw err, or resolve(updatedPackages)
WriteFileReturns ==
    /\ rw.pc = "pending" /\ "writeFile" \in rw.inFlight
    /\ \E err \in BOOLEAN :
          IF err
          THEN rw' = [rw EXCEPT !.pc = "crashed", !.inFlight = {}]
          ELSE rw' = [rw EXCEPT
                        !.inFlight = @ \ {"writeFile"},
                        !.files = [@ EXCEPT ![RootFile] = rw.cache[RootFile]],
                        !.written = @ \cup {RootFile},
                        !.results = [@ EXCEPT !["root"] =
                                        UpdatedPackages(rw.before[RootFile], rw.predicate)]]
    /\ UNCHANGED <<repoVars, procVars, vd, sv, race, lk, cp, inv, mono>>

\* the files of the packages lerna lists in which an entry matches
MatchingPackages ==
    { file \in PackageFiles : UpdatedPackages(Required(file), rw.predicate) # {} }

\* the callback of exec('npx lerna list --json'): throw err, or each package's
\* object is rewritten and written with writeFileSync when an entry changed
LernaListReturns ==
    /\ rw.pc = "pending" /\ "lerna list" \in rw.inFlight
    /\ \E outcome \in {"listFails", "writeFails", "ok"} :
          /\ outcome = "writeFails" => MatchingPackages # {}
          /\ IF outcome = "listFails"
             THEN rw' = [rw EXCEPT !.pc = "crashed", !.inFlight = {}]
             ELSE IF outcome = "writeFails"
             THEN rw' = [rw EXCEPT !.pc = "crashed", !.inFlight = {},
                                   !.cache = CacheAfter(PackageFiles),
                                   !.issued = @ \o <<"writeFileSync">>]
             ELSE rw' = [rw EXCEPT
                           !.inFlight = @ \ {"lerna list"},
                           !.cache = CacheAfter(PackageFiles),
                           !.files = [file \in DOMAIN @ |->
                                         IF file \in MatchingPackages
                                         THEN CacheAfter(PackageFiles)[file] ELSE @[file]],
                           !.written = @ \cup MatchingPackages,
                           !.issued = @ \o [i \in 1..Cardinality(MatchingPackages) |->
                                               "writeFileSync"],
                           !.results = [@ EXCEPT !["lerna"] =
                                           UNION { UpdatedPackages(Required(file),
                                                                   rw.predicate) :
                                                   file \in PackageFiles }]]
    /\ UNCHANGED <<repoVars, procVars, vd, sv, race, lk, cp, inv, mono>>

\* Promise.all(updatePromises).then: uniquePackages; processLockFile(scopes)
\* is called when updateLockFile is set and a scoped package was updated,
\* otherwise the promise is resolved
AllUpdated ==
    /\ rw.pc = "pending"
    /\ \A promise \in DOMAIN rw.results : rw.results[promise] # Pending
    /\ LET uniquePackages == UNION { rw.results[promise] : promise \in DOMAIN rw.results }
       IN  IF rw.updateLockFile /\ ExtractScopes(uniquePackages) # {}
           THEN rw' = [rw EXCEPT !.pc = "lockFile", !.uniquePackages = uniquePackages,
                                 !.inFlight = {"processLockFile"},
                                 !.issued = @ \o <<"processLockFile">>]
           ELSE rw' = [rw EXCEPT !.pc = "resolved", !.uniquePackages = uniquePackages]
    /\ UNCHANGED <<repoVars, procVars, vd, sv, race, lk, cp, inv, mono>>

\* processLockFile(scopes) settles: resolve(), or handleError(err)
ProcessLockFileSettles ==
    /\ rw.pc = "lockFile"
    /\ \E err \in BOOLEAN :
          rw' = [rw EXCEPT !.pc = IF err THEN "exited" ELSE "resolved", !.inFlight = {}]
    /\ UNCHANGED <<repoVars, procVars, vd, sv, race, lk, cp, inv, mono>>

\* the same call once more, in the same process
CallAgain ==
    /\ rw.pc = "resolved" /\ rw.calls = 1
    /\ rw' = [rw EXCEPT !.pc = "call", !.calls = 2, !.before = rw.files,
                        !.first = rw.files, !.issued = <<>>, !.written = {},
                        !.results = <<>>, !.uniquePackages = {}]
    /\ UNCHANGED <<repoVars, procVars, vd, sv, race, lk, cp, inv, mono>>

NextRewrite ==
    \/ CallUpdateDistTagsDependencies \/ WriteFileReturns \/ LernaListReturns
    \/ AllUpdated \/ ProcessLockFileSettles \/ CallAgain

SpecRewrite == InitRewrite /\ [][NextRewrite]_vars

(***************************************************************************)
(* updateDistTagsDependencies: properties                                  *)
(***************************************************************************)

\* C22: at most one git, npm or file operation of the invocation is in
\* flight at any time, in a lerna project too.
C22_OneOperationInFlight == Cardinality(rw.inFlight) <= 1

\* C25: a second call with the predicate version === 'dev' and the target
\* next leaves every package.json as the first call left it, finds no
\* updated package and writes no file.
C25_SecondRewriteChangesNothing ==
    (rw.pc = "resolved" /\ rw.calls = 2 /\ rw.predicate = "isDev") =>
        /\ rw.files = rw.first
        /\ rw.uniquePackages = {}
        /\ rw.written = {}
        /\ \A i \in 1..Len(rw.issued) : rw.issued[i] = "lerna list"

\* the second call has returned in a lerna project whose files the first
\* call changed
C25_Witness ==
    /\ rw.pc = "resolved" /\ rw.calls = 2 /\ rw.predicate = "isDev"
    /\ rw.isLernaProject
    /\ rw.first[RootFile] # rw.original[RootFile]
    /\ \E file \in PackageFiles : rw.first[file] # rw.original[file]

\* the entries of a package.json, as it was when the call started, that the
\* predicate holds of
MatchingEntries(file) ==
    UNION { { <<type, pkg>> :
              pkg \in { p \in DOMAIN rw.before[file][type] :
                          VersionPredicate(rw.predicate, rw.before[file][type][p]) } } :
            type \in DependencyTypes }

\* what the call has to leave in a package.json
RewrittenAsSpecified(file) ==
    /\ rw.files[file].version = rw.before[file].version
    /\ \A type \in DependencyTypes :
          /\ DOMAIN rw.files[file][type] = DOMAIN rw.before[file][type]
          /\ \A pkg \in DOMAIN rw.before[file][type] :
                rw.files[file][type][pkg] =
                    IF <<type, pkg>> \in MatchingEntries(file)
                    THEN rw.newVersion ELSE rw.before[file][type][pkg]

\* the names of the matching entries of the given files
MatchingNames(files) ==
    { entry[2] : entry \in UNION { MatchingEntries(file) : file \in files } }

Actors == {"actor1", "actor2"}

\* the remote has no such branch
NoHead == "<none>"

StartingActor(isClean) ==
    [pc |-> "checkUncommittedChanges", clean |-> isClean, seen |-> NoHead,
     head |-> NoHead, pushed |-> "no", failure |-> ""]

InitRace ==
    /\ IdleProcess
    /\ vd = IdleCall
    /\ sv = NoCall /\ rw = NoCall /\ lk = NoCall /\ cp = NoCall /\ inv = NoCall
    /\ mono = NoCall
    /\ \E command \in {"release-start", "hotfix-start"},
          head \in {NoHead, "someone"}, isClean \in [Actors -> BOOLEAN] :
          race = [command |-> command,
                  branch |-> IF command = "release-start" THEN "release" ELSE "hotfix",
                  head |-> head,
                  actor |-> [a \in Actors |-> StartingActor(isClean[a])]]

\* the actor's process ends with exit code 1
ActorExits(a, kind) ==
    race' = [race EXCEPT !.actor[a].pc = "exited", !.actor[a].failure = kind]

ActorGoesTo(a, step) == race' = [race EXCEPT !.actor[a].pc = step]

\* checkUncommittedChanges in the actor's clone
RaceCheckUncommittedChanges(a) ==
    /\ race.actor[a].pc = "checkUncommittedChanges"
    /\ \E err \in BOOLEAN :
          IF err THEN ActorExits(a, "ToolFailure")
          ELSE IF ~race.actor[a].clean THEN ActorExits(a, "UncommittedChanges")
          ELSE ActorGoesTo(a, "checkRemoteBranchExists")
    /\ UNCHANGED <<repoVars, procVars, vd, sv, rw, lk, cp, inv, mono>>

\* a variant that never finds the branch
RaceCheckRemoteBranchNever(a) ==
    /\ race.actor[a].pc = "checkRemoteBranchExists"
    /\ race' = [race EXCEPT !.actor[a].pc = "createBranch",
                            !.actor[a].seen = race.head]
    /\ UNCHANGED <<repoVars, procVars, vd, sv, rw, lk, cp, inv, mono>>

\* checkRemoteBranchExists(git, branch), then process.exit(1) if it exists
RaceCheckRemoteBranchExists(a) ==
    /\ race.actor[a].pc = "checkRemoteBranchExists"
    /\ \E err \in BOOLEAN :
          IF err THEN ActorExits(a, "ToolFailure")
          ELSE IF race.head # NoHead
          THEN race' = [race EXCEPT !.actor[a].pc = "exited",
                                    !.actor[a].seen = race.head,
                                    !.actor[a].failure = "WorkflowAlreadyInProgress"]
          ELSE race' = [race EXCEPT !.actor[a].pc = "createBranch",
                                    !.actor[a].seen = race.head]
    /\ UNCHANGED <<repoVars, procVars, vd, sv, rw, lk, cp, inv, mono>>

\* the base branch is checked out and pulled, the branch is created in the
\* clone, the version and the dependencies are set, and git commit
RaceCreateBranch(a) ==
    /\ race.actor[a].pc = "createBranch"
    /\ \E err \in BOOLEAN :
          IF err THEN ActorExits(a, "ToolFailure")
          ELSE race' = [race EXCEPT !.actor[a].pc = "push", !.actor[a].head = a]
    /\ UNCHANGED <<repoVars, procVars, vd, sv, rw, lk, cp, inv, mono>>

\* commitAndPush: git push origin branch.  The remote takes the commit when
\* it has no such branch and rejects a commit that does not contain the
\* branch's head
RacePush(a) ==
    /\ race.actor[a].pc = "push"
    /\ \E err \in BOOLEAN :
          /\ race.head # NoHead => err
          /\ IF err
             THEN race' = [race EXCEPT !.actor[a].pc = "exited",
                                       !.actor[a].pushed = "rejected",
                                       !.actor[a].failure = "ToolFailure"]
             ELSE race' = [race EXCEPT !.actor[a].pc = "completed",
                                       !.actor[a].pushed = "accepted",
                                       !.head = a]
    /\ UNCHANGED <<repoVars, procVars, vd, sv, rw, lk, cp, inv, mono>>

NextRace ==
    \E a \in Actors :
        \/ RaceCheckUncommittedChanges(a) \/ RaceCheckRemoteBranchExists(a)
        \/ RaceCreateBranch(a) \/ RacePush(a)

SpecRace == InitRace /\ [][NextRace]_vars

PassedCheck(a) == race.actor[a].pc \in {"createBranch", "push", "completed"}
                  \/ race.actor[a].pushed # "no"

\* C23: the check is the only coordination: an actor goes on exactly when
\* the remote had no such branch at the moment of its check, whatever the
\* other actor has done or does afterwards.  So both actors can pass the
\* check before either has pushed, and then both create the branch and push
\* it; the remote keeps the commit that arrives first and rejects the other.
C23_CheckIsAdvisory ==
    /\ \A a \in Actors :
          /\ PassedCheck(a) => race.actor[a].seen = NoHead
          /\ race.actor[a].failure = "WorkflowAlreadyInProgress" =>
                race.actor[a].seen # NoHead /\ race.actor[a].head = NoHead
          /\ race.actor[a].pushed = "accepted" => race.actor[a].head = a
    /\ Cardinality({ a \in Actors : race.actor[a].pushed = "accepted" }) <= 1

\* both actors passed the check while the remote had no such branch, both
\* created the branch and both pushed it
C23_Witness ==
    /\ \A a \in Actors : /\ race.actor[a].seen = NoHead
                          /\ race.actor[a].head = a
                          /\ race.actor[a].pushed # "no"
    /\ \E a \in Actors : race.actor[a].pushed = "accepted"

(***************************************************************************)
(* The lock file update: bin/update-lock-file.js, which takes one scope    *)
(* from the command line, and processLockFile(scope) of                    *)
(* lib/lock-file-utils.js, which takes a scope or an array of scopes.      *)
(* A lock file is its packages object, a map from paths to entries, or a   *)
(* file without a packages object.                                         *)
(***************************************************************************)

\* a scope argument: a string (or nothing), held as the only element of
\* value, or an array of strings
OneScope(scope) == [isArray |-> FALSE, value |-> <<scope>>]
ScopeArray(scopes) == [isArray |-> TRUE, value |-> scopes]

\* a variant that only looks at the first character
ValidateSingleScopeLax(scope) == ~Falsy(scope) /\ StartsWith(scope, "@")

\* validateSingleScope(scope)
validateSingleScope(scope) ==
    IF Falsy(scope) THEN FALSE
    ELSE IF ~StartsWith(scope, "@") \/ Includes(scope, "/") THEN FALSE
    ELSE TRUE

\* validateScope(scope)
validateScope(scope) ==
    IF scope.isArray
    THEN IF Len(scope.value) = 0 THEN FALSE
         ELSE \A i \in 1..Len(scope.value) : validateSingleScope(scope.value[i])
    ELSE validateSingleScope(scope.value[1])

\* Array.isArray(scope) ? scope : [scope]
ScopesOf(scope) == scope.value

\* depName.startsWith(s) for one of the scopes
InScopes(depName, scopes) ==
    \E i \in 1..Len(scopes) : StartsWith(depName, scopes[i])

\* the elements of a set, one after the other
RECURSIVE Listed(_)
Listed(S) ==
    IF S = {} THEN <<>>
    ELSE LET x == CHOOSE y \in S : TRUE IN <<x>> \o Listed(S \ {x})

\* the dependency names of the three maps, map after map, that start with
\* one of the scopes
ScopedNames(packageJson, scopes) ==
    LET names(depType) ==
            Listed({ depName \in DOMAIN packageJson[depType] :
                       InScopes(depName, scopes) })
    IN  names("dependencies") \o names("devDependencies") \o names("peerDependencies")

\* new Set(), packages.add(depName) for each name, Array.from(packages):
\* each name at the place of its first occurrence
Added(names) ==
    SelectSeq([i \in 1..Len(names) |->
                  IF \E j \in 1..(i - 1) : names[j] = names[i] THEN Null ELSE names[i]],
              LAMBDA name : name # Null)

\* collectScopePackages(scope), reading packageJson
collectScopePackages(packageJson, scopes) == Added(ScopedNames(packageJson, scopes))

\* pkgPath.startsWith(`node_modules/${s}`) for one of the scopes
UnderScopes(pkgPath, scopes) ==
    \E i \in 1..Len(scopes) : StartsWith(pkgPath, "node_modules/" \o scopes[i])

\* a variant that removes the paths that contain a scope anywhere
RemoveEntriesContainingScope(lockFileData, scopes) ==
    IF ~lockFileData.hasPackages THEN lockFileData
    ELSE [lockFileData EXCEPT !.packages =
            [pkgPath \in { k \in DOMAIN lockFileData.packages :
                             ~\E i \in 1..Len(scopes) :
                                 Includes(k, "node_modules/" \o scopes[i]) } |->
                lockFileData.packages[pkgPath]]]

\* removeNodeModulesEntries(lockFileData, scope)
removeNodeModulesEntries(lockFileData, scopes) ==
    IF ~lockFileData.hasPackages THEN lockFileData
    ELSE [lockFileData EXCEPT !.packages =
            [pkgPath \in { k \in DOMAIN lockFileData.packages :
                             ~UnderScopes(k, scopes) } |->
                lockFileData.packages[pkgPath]]]

\* a variant that prefers npm-shrinkwrap.json
GetLockFilePathShrinkwrapFirst(present) ==
    IF "npm-shrinkwrap.json" \in present THEN "npm-shrinkwrap.json"
    ELSE IF "package-lock.json" \in present THEN "package-lock.json"
    ELSE Null

\* getLockFilePath(): null stands for the Error it throws
getLockFilePath(present) ==
    IF "package-lock.json" \in present THEN "package-lock.json"
    ELSE IF "npm-shrinkwrap.json" \in present THEN "npm-shrinkwrap.json"
    ELSE Null

LockEntries(paths) == [pkgPath \in paths |-> [version |-> "1.0.0", path |-> pkgPath]]

\* lock files: the three paths of the documentation's example; top-level,
\* nested and undeclared installations; a file without a packages object
LockFileContents ==
    { [hasPackages |-> TRUE,
       packages |-> LockEntries({"node_modules/@scope/a", "node_modules/@scope/b",
                                 "node_modules/other/c"})],
      [hasPackages |-> TRUE,
       packages |-> LockEntries({"", "node_modules/@scope/a", "node_modules/@scope/z",
                                 "node_modules/@scope/a/node_modules/d",
                                 "node_modules/c/node_modules/@scope/a",
                                 "node_modules/@scopefoo/x", "node_modules/@org/x",
                                 "node_modules/c"})],
      [hasPackages |-> FALSE, packages |-> <<>>] }

\* package.json files: scoped packages declared in one map, in two maps,
\* in none; Absent is a package.json that cannot be read
LockManifests ==
    { Manifest("1.0.0", [pkg \in {"@scope/a", "c"} |-> "1.0.0"],
               [pkg \in {"@scope/a", "@scope/b"} |-> "next"], NoDeps),
      Manifest("1.0.0", [pkg \in {"@scope/a"} |-> "1.0.0"], NoDeps,
               [pkg \in {"@org/x"} |-> "1.0.0"]),
      Manifest("1.0.0", [pkg \in {"@scopefoo/x", "c"} |-> "1.0.0"], NoDeps, NoDeps),
      Manifest("1.0.0", [pkg \in {"c"} |-> "1.0.0"], NoDeps, NoDeps),
      Absent }

\* what update-lock-file gets from the command line (null: no argument)
CommandLineScopes ==
    { OneScope(scope) : scope \in {Null, "", "@scope", "@org", "@", "scope",
                                   "@scope/a", "sc@pe"} }

\* what processLockFile and validateScope are called with
ScopeArguments ==
    { OneScope("@scope") }
    \cup { ScopeArray(scopes) :
           scopes \in {<<>>, <<"@scope">>, <<"@org">>, <<"@scope", "@org">>,
                       <<"@org", "@scope">>} }

\* what validateScope alone is also called with
RejectedScopeArrays ==
    { ScopeArray(scopes) :
      scopes \in {<<"@scope", "scope">>, <<"", "@scope">>, <<"@scope/a">>,
                  <<"@scope", Null>>} }

InitLock ==
    /\ IdleProcess
    /\ vd = IdleCall
    /\ sv = NoCall /\ rw = NoCall /\ race = NoCall /\ cp = NoCall /\ inv = NoCall
    /\ mono = NoCall
    /\ \E call \in ({"update-lock-file"} \X CommandLineScopes)
                    \cup ({"processLockFile"} \X ScopeArguments)
                    \cup ({"validateScope"} \X
                          (CommandLineScopes \cup ScopeArguments \cup RejectedScopeArrays)),
          packageJson \in LockManifests,
          present \in SUBSET {"package-lock.json", "npm-shrinkwrap.json"},
          content \in LockFileContents :
          /\ call[1] = "validateScope" =>
                packageJson = Absent /\ present = {} /\ content.hasPackages = FALSE
          /\ lk = [pc |-> "start", fn |-> call[1], scope |-> call[2],
                   packageJson |-> packageJson,
                   files |-> [file \in present |-> content],
                   original |-> [file \in present |-> content],
                   lockFilePath |-> Null, packagesToUpdate |-> <<>>,
                   reads |-> <<>>, writes |-> <<>>, npm |-> <<>>,
                   exitCode |-> 0, failure |-> "", result |-> FALSE]

LockVarsUnchanged == UNCHANGED <<repoVars, procVars, vd, sv, rw, race, cp, inv, mono>>

\* the catch of processLockFile: process.exit(1) in the script, throw error in
\* the library
LockFails(kind, reads, writes) ==
    lk' = [lk EXCEPT !.pc = IF lk.fn = "update-lock-file" THEN "exited" ELSE "rejected",
                     !.exitCode = IF lk.fn = "update-lock-file" THEN 1 ELSE 0,
                     !.failure = kind, !.reads = reads, !.writes = writes]

\* validateScope(scope) called on its own
CallValidateScope ==
    /\ lk.pc = "start" /\ lk.fn = "validateScope"
    /\ lk' = [lk EXCEPT !.pc = "returned", !.result = validateScope(lk.scope)]
    /\ LockVarsUnchanged

\* bin/update-lock-file.js: the scope is checked, process.exit(0) when it is
\* rejected, then processLockFile(scope)
UpdateLockFileStarts ==
    /\ lk.pc = "start" /\ lk.fn = "update-lock-file"
    /\ IF validateSingleScope(lk.scope.value[1])
       THEN lk' = [lk EXCEPT !.pc = "getLockFilePath"]
       ELSE lk' = [lk EXCEPT !.pc = "exited", !.exitCode = 0,
                             !.failure = "InvalidScopeFormat"]
    /\ LockVarsUnchanged

\* lib/lock-file-utils.js: processLockFile(scope) is called
ProcessLockFileStarts ==
    /\ lk.pc = "start" /\ lk.fn = "processLockFile"
    /\ lk' = [lk EXCEPT !.pc = "getLockFilePath"]
    /\ LockVarsUnchanged

\* const lockFilePath = getLockFilePath()
GetLockFilePath ==
    /\ lk.pc = "getLockFilePath"
    /\ LET lockFilePath == getLockFilePath(DOMAIN lk.files)
       IN  IF lockFilePath = Null
           THEN LockFails("NoLockFileFound", lk.reads, lk.writes)
           ELSE lk' = [lk EXCEPT !.pc = "collectScopePackages",
                                 !.lockFilePath = lockFilePath]
    /\ LockVarsUnchanged

\* const packagesToUpdate = collectScopePackages(scopes), and the return when
\* it is empty
CollectScopePackages ==
    /\ lk.pc = "collectScopePackages"
    /\ LET reads == Append(lk.reads, "package.json")
           packagesToUpdate == collectScopePackages(lk.packageJson, ScopesOf(lk.scope))
       IN  IF lk.packageJson = Absent
           THEN LockFails("ToolFailure", reads, lk.writes)
           ELSE lk' = [lk EXCEPT
                         !.pc = IF Len(packagesToUpdate) = 0 THEN "resolved"
                                ELSE "removeNodeModulesEntries",
                         !.reads = reads,
                         !.packagesToUpdate = packagesToUpdate]
    /\ LockVarsUnchanged

\* the lock file is read, removeNodeModulesEntries, and fs.writeFileSync
RemoveNodeModulesEntries ==
    /\ lk.pc = "removeNodeModulesEntries"
    /\ LET reads == Append(lk.reads, lk.lockFilePath)
           writes == Append(lk.writes, lk.lockFilePath)
           updatedLockFileData ==
               removeNodeModulesEntries(lk.files[lk.lockFilePath], ScopesOf(lk.scope))
       IN  \E outcome \in {"readFails", "writeFails", "ok"} :
              CASE outcome = "readFails" -> LockFails("ToolFailure", reads, lk.writes)
                [] outcome = "writeFails" -> LockFails("ToolFailure", reads, writes)
                [] outcome = "ok" ->
                     lk' = [lk EXCEPT !.pc = "updatePackages",
                                      !.reads = reads, !.writes = writes,
                                      !.files[lk.lockFilePath] = updatedLockFileData]
    /\ LockVarsUnchanged

\* await updatePackages(packagesToUpdate): npm update with the names
UpdatePackages ==
    /\ lk.pc = "updatePackages"
    /\ \E error \in BOOLEAN :
          IF error
          THEN lk' = [lk EXCEPT
                        !.pc = IF lk.fn = "update-lock-file" THEN "exited" ELSE "rejected",
                        !.exitCode = IF lk.fn = "update-lock-file" THEN 1 ELSE 0,
                        !.failure = "ToolFailure",
                        !.npm = Append(@, lk.packagesToUpdate)]
          ELSE lk' = [lk EXCEPT !.pc = "resolved",
                                !.npm = Append(@, lk.packagesToUpdate)]
    /\ LockVarsUnchanged

NextLock ==
    \/ CallValidateScope \/ UpdateLockFileStarts \/ ProcessLockFileStarts
    \/ GetLockFilePath \/ CollectScopePackages \/ RemoveNodeModulesEntries
    \/ UpdatePackages

SpecLock == InitLock /\ [][NextLock]_vars

(***************************************************************************)
(* The lock file update: properties                                        *)
(***************************************************************************)

\* the lock file has been written without its removed entries
Pruned == lk.pc = "updatePackages" \/ Len(lk.npm) > 0

PathsBefore == DOMAIN lk.original[lk.lockFilePath].packages
PathsAfter == DOMAIN lk.files[lk.lockFilePath].packages

\* the name is a package of the scope
OfScope(name, scope) == StartsWith(name, scope \o "/")

\* the dependencies declared in package.json that are packages of one of
\* the scopes
DeclaredInScopes ==
    { name \in DOMAIN MergedDependencies(lk.packageJson) :
        \E i \in 1..Len(lk.scope.value) : OfScope(name, lk.scope.value[i]) }

\* the path is that of an installation of the package, at the top or
\* nested under another package
InstallationOf(pkgPath, name) ==
    \/ pkgPath = "node_modules/" \o name
    \/ /\ Len(pkgPath) > Len("/node_modules/" \o name)
       /\ From(pkgPath, Len(pkgPath) - Len("/node_modules/" \o name) + 1)
              = "/node_modules/" \o name

\* the entries kept have the values they had
KeptUnchanged ==
    \A pkgPath \in PathsAfter :
        /\ pkgPath \in PathsBefore
        /\ lk.files[lk.lockFilePath].packages[pkgPath]
              = lk.original[lk.lockFilePath].packages[pkgPath]

\* the run of the documentation's example: @scope/a and @scope/b declared,
\* the three paths in the lock file, scope @scope
ExampleRun ==
    /\ lk.scope.value = <<"@scope">>
    /\ {"@scope/a", "@scope/b"} \subseteq DOMAIN MergedDependencies(lk.packageJson)
    /\ PathsBefore = {"node_modules/@scope/a", "node_modules/@scope/b",
                      "node_modules/other/c"}

\* C27 as stated: the paths removed are exactly the installations of the
\* declared dependencies of the scopes, and every other entry is kept with
\* its value.
C27_RemovesDeclaredInstallations ==
    Pruned =>
        /\ PathsBefore \ PathsAfter =
              { pkgPath \in PathsBefore :
                  \E name \in DeclaredInScopes : InstallationOf(pkgPath, name) }
        /\ KeptUnchanged

\* C27, amended: the paths removed are exactly those that begin with
\* node_modules/<scope> for one of the scopes, declared or not, with what is
\* installed below them; every other entry is kept with its value; in the
\* example the two paths of @scope go, node_modules/other/c stays and the
\* packages to update are @scope/a and @scope/b.
C27_RemovesPathsUnderScopePrefix ==
    Pruned =>
        /\ PathsBefore \ PathsAfter =
              { pkgPath \in PathsBefore :
                  \E i \in 1..Len(lk.scope.value) :
                      /\ Len(pkgPath) >= Len("node_modules/" \o lk.scope.value[i])
                      /\ SubSeq(pkgPath, 1, Len("node_modules/" \o lk.scope.value[i]))
                            = "node_modules/" \o lk.scope.value[i] }
        /\ KeptUnchanged
        /\ lk.files[lk.lockFilePath].hasPackages = lk.original[lk.lockFilePath].hasPackages
        /\ ExampleRun =>
              /\ PathsAfter = {"node_modules/other/c"}
              /\ {lk.packagesToUpdate[i] : i \in 1..Len(lk.packagesToUpdate)}
                    = {"@scope/a", "@scope/b"}

\* the example has been pruned; or a lock file has been pruned of an
\* undeclared package of the scope while a nested installation of a
\* declared one stayed
C27_Witness ==
    /\ Pruned
    /\ \/ ExampleRun
       \/ /\ lk.scope.value = <<"@scope">>
          /\ "node_modules/@scope/z" \in PathsBefore \ PathsAfter
          /\ "@scope/z" \notin DOMAIN MergedDependencies(lk.packageJson)
          /\ "node_modules/c/node_modules/@scope/a" \in PathsAfter

\* the set of the elements of a sequence
Range(seq) == {seq[i] : i \in 1..Len(seq)}

\* the lock file update has got past getLockFilePath, or has ended there
PastGetLockFilePath ==
    /\ lk.fn \in {"update-lock-file", "processLockFile"}
    /\ lk.pc \notin {"start", "getLockFilePath"}
    /\ lk.failure # "InvalidScopeFormat"

\* C28: package-lock.json is taken whenever it exists, npm-shrinkwrap.json
\* only when package-lock.json does not exist, and no other lock file is
\* read or written; when neither exists the update fails with the error of
\* getLockFilePath, having written no file and run no npm update.
C28_LockFileSelection ==
    PastGetLockFilePath =>
        /\ "package-lock.json" \in DOMAIN lk.files =>
              lk.lockFilePath = "package-lock.json"
        /\ lk.lockFilePath = "npm-shrinkwrap.json" =>
              /\ "package-lock.json" \notin DOMAIN lk.files
              /\ "npm-shrinkwrap.json" \in DOMAIN lk.files
        /\ Range(lk.reads) \subseteq {"package.json", lk.lockFilePath}
        /\ Range(lk.writes) \subseteq {lk.lockFilePath}
        /\ \A file \in DOMAIN lk.files \ {lk.lockFilePath} :
              lk.files[file] = lk.original[file]
        /\ DOMAIN lk.files = {} =>
              /\ lk.pc \in {"exited", "rejected"}
              /\ lk.failure = "NoLockFileFound"
              /\ lk.fn = "update-lock-file" => lk.exitCode = 1
              /\ lk.reads = <<>> /\ lk.writes = <<>> /\ lk.npm = <<>>

\* with both files present package-lock.json has been pruned and
\* npm-shrinkwrap.json is as it was
C28_Witness ==
    /\ Pruned
    /\ DOMAIN lk.files = {"package-lock.json", "npm-shrinkwrap.json"}
    /\ lk.files["package-lock.json"] # lk.original["package-lock.json"]
    /\ lk.writes = <<"package-lock.json">>

\* C29: npm update is run for exactly the declared dependencies that are
\* packages of the given scopes, each named once, and after the lock file
\* was written; when there is none the update ends successfully without
\* npm update and without a change of the lock file.
C29_UpdatesExactlyTheScopedDependencies ==
    /\ Len(lk.npm) > 0 =>
          /\ lk.npm = <<lk.packagesToUpdate>>
          /\ Range(lk.packagesToUpdate) = DeclaredInScopes
          /\ Len(lk.packagesToUpdate) = Cardinality(DeclaredInScopes)
          /\ lk.writes = <<lk.lockFilePath>>
    /\ (PastGetLockFilePath /\ lk.lockFilePath # Null /\ lk.packageJson # Absent
           /\ lk.pc # "collectScopePackages" /\ DeclaredInScopes = {}) =>
          /\ lk.pc = "resolved"
          /\ lk.npm = <<>> /\ lk.writes = <<>>
          /\ lk.files = lk.original

\* what the validation of a single scope has to answer
WellFormedScope(scope) ==
    /\ scope # Null
    /\ Len(scope) > 0
    /\ Char(scope, 1) = "@"
    /\ \A i \in 1..Len(scope) : Char(scope, i) # "/"

\* C30: validateScope accepts a scope exactly when it is a non-empty string
\* that starts with @ and contains no /, and an array exactly when it is not
\* empty and each element is accepted; update-lock-file given a rejected
\* scope ends without reading or writing package.json or a lock file and
\* without npm update.
C30_ScopeValidation ==
    /\ (lk.fn = "validateScope" /\ lk.pc = "returned") =>
          lk.result = IF lk.scope.isArray
                      THEN /\ Len(lk.scope.value) > 0
                           /\ \A i \in 1..Len(lk.scope.value) :
                                 WellFormedScope(lk.scope.value[i])
                      ELSE WellFormedScope(lk.scope.value[1])
    /\ (lk.fn = "update-lock-file" /\ lk.pc # "start"
           /\ ~WellFormedScope(lk.scope.value[1])) =>
          /\ lk.pc = "exited"
          /\ lk.reads = <<>> /\ lk.writes = <<>> /\ lk.npm = <<>>
          /\ lk.files = lk.original

\* update-lock-file has ended on the scope @scope/a with both lock files
\* present
C30_Witness ==
    /\ lk.fn = "update-lock-file" /\ lk.pc = "exited"
    /\ lk.scope.value = <<"@scope/a">>
    /\ DOMAIN lk.files = {"package-lock.json", "npm-shrinkwrap.json"}
    /\ lk.packageJson # Absent

(***************************************************************************)
(* The order of the operations of the finish workflows                     *)
(***************************************************************************)

\* the commands finishReleaseBranch issues when nothing fails, for a source
\* branch, the version core taken from it and the version set on develop
FinishReleaseOps(source, core, inc) ==
    << <<"status", "">>,
       <<"checkout", source>>, <<"pull", source>>,
       <<"show", source>>,
       <<"checkout", "main">>, <<"pull", "main">>,
       <<"merge", source>>,
       <<"npm version", core>>,
       <<"commit", "main">>,
       <<"tag", core>>, <<"pushTags", "">>,
       <<"push", "main">>,
       <<"checkout", "develop">>, <<"pull", "develop">>,
       <<"merge", "main">>,
       <<"show", "main">>,
       <<"npm version", inc>>,
       <<"commit", "develop">>, <<"push", "develop">>,
       <<"deleteRemote", source>>, <<"deleteLocal", source>> >>

IsPrefix(s, t) == Len(s) <= Len(t) /\ s = SubSeq(t, 1, Len(s))

\* the place of the first command of a kind among the issued ones, 0 if none
FirstIssued(kind) ==
    IF Issued({kind})
    THEN CHOOSE i \in 1..Len(ops) :
            ops[i][1] = kind /\ \A j \in 1..(i - 1) : ops[j][1] # kind
    ELSE 0

\* C31: what release-finish (hotfix-finish) has issued is at every moment a
\* beginning of one fixed sequence: merge of the source branch into main,
\* version core set, commit, tag and push of the tags, push of main, checkout
\* and pull of develop, merge of main, version set, commit and push of
\* develop, deletion of the source branch on the remote and then locally.
\* When the tag is created main's tip holds the version core, and when the
\* deletion of the source branch is issued the tag, main and develop are on
\* the remote.
C31_FinishOrder ==
    cmd.name \in ReleaseFinishCommands =>
        LET source == BranchTypeOf(cmd.name)
            core == IF source \in DOMAIN start.remote
                    THEN getVersionCore(start.remote[source].version) ELSE Null
            inc == IF Falsy(core) THEN Null ELSE getIncrementedPatchVersion(core)
        IN  /\ IsPrefix(ops, FinishReleaseOps(source, core, inc))
            /\ Issued({"tag"}) =>
                  /\ local["main"].version = core
                  /\ FirstIssued("commit") < FirstIssued("tag")
            /\ Issued({"deleteRemote", "deleteLocal"}) =>
                  /\ core \in remoteTags
                  /\ remote["main"].version = core
                  /\ remote["develop"].version = inc
                  /\ FirstIssued("push") < FirstIssued("deleteRemote")
                  /\ \E i \in 1..Len(ops) : ops[i] = <<"push", "develop">>

\* hotfix-finish has completed: all twenty-one commands have been issued
C31_Witness ==
    /\ status = "completed" /\ cmd.name = "hotfix-finish"
    /\ Len(ops) = 21
    /\ ops[Len(ops)] = <<"deleteLocal", "hotfix">>

\* C32: when feature-finish (bugfix-finish) has completed, develop's manifest
\* version, locally and on the remote, is the version the remote develop had
\* when the workflow pulled it, whatever version the finished branch carried.
C32_DevelopKeepsItsVersion ==
    (status = "completed" /\ cmd.name \in TopicFinishCommands) =>
        /\ local["develop"].version = start.remote["develop"].version
        /\ remote["develop"].version = start.remote["develop"].version

\* bugfix-finish has completed on a branch whose manifest had a version of
\* its own, from a clone whose develop was behind the remote
C32_Witness ==
    /\ status = "completed" /\ cmd.name = "bugfix-finish"
    /\ start.current = "bugfix/y"
    /\ start.local["bugfix/y"].version = "2.3.0-bugfix-y.0"
    /\ start.local["develop"].version = "0.9.0"
    /\ remote["develop"].version = "2.3.0"

\* git branch -d can delete the branch: it exists, is not checked out and is
\* merged into the checked-out branch
CanDeleteLocal(branch) ==
    /\ branch \in DOMAIN local
    /\ branch # current
    /\ branch \in reach[current]

\* C33: when feature-finish (bugfix-finish) reaches its last step, after a
\* no-fast-forward merge or after a squash merge, the finished branch can be
\* deleted on the remote and locally, so that the step ends with the branch
\* gone from both unless git itself fails; a completed run has deleted both;
\* the deletion is issued after the push of develop, on the remote first.
C33_TopicBranchDeleted ==
    cmd.name \in TopicFinishCommands =>
        /\ Running("deleteBranch") =>
              /\ ctx.currentBranch \in DOMAIN remote
              /\ CanDeleteLocal(ctx.currentBranch)
        /\ status = "completed" =>
              /\ ctx.currentBranch \notin DOMAIN local
              /\ ctx.currentBranch \notin DOMAIN remote
        /\ Issued({"deleteRemote"}) =>
              /\ \E i \in 1..(FirstIssued("deleteRemote") - 1) :
                    ops[i] = <<"push", "develop">>
              /\ Issued({"deleteLocal"}) =>
                    FirstIssued("deleteRemote") < FirstIssued("deleteLocal")

WorkflowStartCommands == {"release-start", "hotfix-start"}

\* C34: release-start (hotfix-start) ends because a workflow is already in
\* progress only when the remote has a head named exactly release (hotfix),
\* and goes past the check only when it has none, whatever other heads the
\* remote has.
C34_ExactHeadName ==
    cmd.name \in WorkflowStartCommands =>
        /\ failure = "WorkflowAlreadyInProgress" =>
              BranchTypeOf(cmd.name) \in DOMAIN start.remote
        /\ (status = "running" /\ pc > 2) =>
              BranchTypeOf(cmd.name) \notin DOMAIN start.remote

\* C35: every entry of every dependency map is examined on its own: when
\* validateDependencies has returned, each entry of a package that is not
\* excluded whose specifier isVersionAllowed rejects is in the list of
\* offenders, whatever the other maps hold for the same package.
C35_EveryMapExamined ==
    ValidateReturned =>
        \A e \in Entries(vd.packageJson) :
            (/\ e[2] \notin vd.excludePackages
             /\ ~isVersionAllowed(e[3], vd.targetBranchType))
            => Offender(e[2], e[3]) \in vd.invalidDeps

(***************************************************************************)
(* A rewrite of the dependency tags followed by the validation of the      *)
(* result: updateDistTagDependencies on an arbitrary small manifest with   *)
(* the predicate and the tag of a command, then validateDependencies under *)
(* the policy of the branch the command commits to.                        *)
(***************************************************************************)

\* the branch type a manifest comes from, the rewrite a command applies to
\* it and the branch type of the branch that receives the result
Rewrites ==
    { [from |-> "feature", predicate |-> "isTopic", newVersion |-> "dev", to |-> "develop"],
      [from |-> "bugfix", predicate |-> "isTopic", newVersion |-> "dev", to |-> "develop"],
      [from |-> "develop", predicate |-> "isDev", newVersion |-> "next", to |-> "release"] }

InitCompose ==
    /\ IdleProcess
    /\ vd = IdleCall
    /\ sv = NoCall /\ rw = NoCall /\ race = NoCall /\ lk = NoCall /\ inv = NoCall
    /\ mono = NoCall
    /\ cp \in { [pc |-> "start", rewrite |-> rewrite, before |-> packageJson,
                 packageJson |-> packageJson, invalidDeps |-> {}] :
                rewrite \in Rewrites, packageJson \in GeneratedManifests }

\* updateDistTagDependencies(packageJson, versionPredicate, newVersion)
ComposeRewrite ==
    /\ cp.pc = "start"
    /\ cp' = [cp EXCEPT !.pc = "rewritten",
                        !.packageJson = RewrittenManifest(cp.packageJson,
                                                          cp.rewrite.predicate,
                                                          cp.rewrite.newVersion)]
    /\ UNCHANGED <<repoVars, procVars, vd, sv, rw, race, lk, inv, mono>>

\* validateDependencies(to) on the rewritten manifest
ComposeValidate ==
    /\ cp.pc = "rewritten"
    /\ \E invalidDeps \in {InvalidDeps(cp.packageJson, cp.rewrite.to, {})} :
          cp' = [cp EXCEPT !.pc = IF invalidDeps # {} THEN "failed" ELSE "resolved",
                           !.invalidDeps = invalidDeps]
    /\ UNCHANGED <<repoVars, procVars, vd, sv, rw, race, lk, inv, mono>>

NextCompose == ComposeRewrite \/ ComposeValidate

SpecCompose == InitCompose /\ [][NextCompose]_vars

\* every entry of every map is allowed under the branch type
AllAllowed(packageJson, branchType) ==
    \A e \in Entries(packageJson) : isVersionAllowed(e[3], branchType)

\* C36: a manifest all of whose dependency entries are allowed under the
\* feature (bugfix) policy has, after the rewrite of feature* and bugfix* to
\* dev, only entries allowed under the develop policy, and one whose entries
\* are all allowed under the develop policy has, after the rewrite of dev to
\* next, only entries allowed under the release policy; the validation of
\* the rewritten manifest under the target policy passes.
C36_RewritesCompose ==
    (cp.pc # "idle" /\ AllAllowed(cp.before, cp.rewrite.from)) =>
        /\ cp.pc # "start" => AllAllowed(cp.packageJson, cp.rewrite.to)
        /\ cp.pc # "failed"

\* a manifest with feature-x and dev entries in two maps has been rewritten
\* and has passed the develop validation
C36_Witness ==
    /\ cp.pc = "resolved" /\ cp.rewrite.from = "feature"
    /\ \E e \in Entries(cp.before) : e[3] = "feature-x" /\ e[1] = "peerDependencies"
    /\ \E e \in Entries(cp.before) : e[3] = "dev"
    /\ AllAllowed(cp.before, "feature")
    /\ \A e \in Entries(cp.packageJson) : e[3] = "dev"

(***************************************************************************)
(* Sequences of release and hotfix invocations against one remote.  Each   *)
(* invocation is made in a clone that is in step with the remote, with     *)
(* develop checked out, after the invocation before it has ended without a *)
(* failing git or npm command.                                             *)
(***************************************************************************)

\* greatest number of invocations of a sequence
MaxInvocations == 4

SequenceCommands ==
    { CommandLine(name, "", FALSE, "", {}) :
        name \in {"release-start", "hotfix-start", "release-finish", "hotfix-finish"} }

\* the remote after a release-finish of 1.2.3: main at 1.2.3 with its tag,
\* develop at 1.2.4
SequenceRemote ==
    [b \in {"main", "develop"} |->
        IF b = "main" THEN MainManifest ELSE WithVersion(StableDeps, "1.2.4")]

\* a clone in step with the remote, develop checked out, and a script started
\* in it
InvokedInClone(r, remoteTagNames, c) ==
    /\ cmd = c
    /\ local = r
    /\ upstream = DOMAIN r
    /\ reach = [b \in DOMAIN r |-> {b}]
    /\ current = "develop"
    /\ wt = r["develop"]
    /\ tags = remoteTagNames
    /\ start = [current |-> "develop", remote |-> r, local |-> r]
    /\ mergeHead = Null
    /\ pc = 0 /\ status = "running" /\ exitCode = 0 /\ failure = ""
    /\ ops = <<>> /\ ctx = NoContext

InitSequence ==
    /\ vd = IdleCall
    /\ sv = NoCall /\ rw = NoCall /\ race = NoCall /\ lk = NoCall /\ cp = NoCall
    /\ mono = NoCall
    /\ inv = [pc |-> "sequence", count |-> 1]
    /\ remote = SequenceRemote
    /\ remoteTags = {"1.2.3"}
    /\ clean = TRUE /\ lockFiles = {}
    /\ \E c \in SequenceCommands : InvokedInClone(SequenceRemote, {"1.2.3"}, c)

\* the ends of an invocation that are not failures of git or npm
Refusals ==
    {"WorkflowAlreadyInProgress", "InvalidDependencies", "InvalidVersionFormat",
     "NotStableDependencies"}

\* the next invocation of the sequence
NextInvocation ==
    /\ inv.count < MaxInvocations
    /\ \/ status = "completed"
       \/ status = "exited" /\ failure \in Refusals
    /\ inv' = [inv EXCEPT !.count = @ + 1]
    /\ cmd' \in SequenceCommands
    /\ local' = remote
    /\ upstream' = DOMAIN remote
    /\ reach' = [b \in DOMAIN remote |-> {b}]
    /\ current' = "develop"
    /\ wt' = remote["develop"]
    /\ tags' = remoteTags
    /\ start' = [current |-> "develop", remote |-> remote, local |-> remote]
    /\ mergeHead' = Null
    /\ pc' = 0 /\ status' = "running" /\ exitCode' = 0 /\ failure' = ""
    /\ ops' = <<>> /\ ctx' = NoContext
    /\ UNCHANGED <<remote, remoteTags, clean, lockFiles, vd, sv, rw, race, lk, cp, mono>>

NextSequence ==
    \/ NextInvocation
    \/ LaunchReleaseStart \/ LaunchHotfixStart \/ LaunchFinishRelease
    \/ checkUncommittedChanges \/ switchToBranchAndPull \/ getVersionFromBranch
    \/ mergeFromBranch \/ commit \/ createAndPushTag \/ push \/ commitAndPush
    \/ deleteBranch \/ checkRemoteBranchExists \/ createReleaseBranch
    \/ validateDependencies \/ getBranchVersion \/ changePackageJsonVersion
    \/ setIncrementedVersion \/ setSpecifiedVersion \/ createHotfixBranch
    \/ checkPackageJsonVersions \/ updateDistTagsDependencies \/ Complete

SpecSequence == InitSequence /\ [][NextSequence]_vars

\* C37: in a sequence of release-start, hotfix-start, release-finish and
\* hotfix-finish invocations, a finish workflow that has merged into main and
\* is about to create its tag has computed a version for which no tag exists
\* yet, locally or on the remote.
C37_TagIsNew ==
    (cmd.name \in ReleaseFinishCommands /\ Running("createAndPushTag")) =>
        /\ Arg \notin tags
        /\ Arg \notin remoteTags

\* the path is under node_modules/<scope>/ for one of the scopes given
PathOfScopes(pkgPath) ==
    \E i \in 1..Len(lk.scope.value) :
        StartsWith(pkgPath, "node_modules/" \o lk.scope.value[i] \o "/")

\* C38: the update of the lock file for some scopes touches no package of
\* another scope: every package named for npm update is a package of one of
\* the scopes given, and every path removed from the lock file is under
\* node_modules/<scope>/ for one of them; a name or path of a scope whose
\* name merely begins like a scope given is left alone.
C38_OtherScopesUntouched ==
    (lk.fn \in {"update-lock-file", "processLockFile"} /\ PastGetLockFilePath) =>
        /\ \A i \in 1..Len(lk.packagesToUpdate) :
              \E j \in 1..Len(lk.scope.value) :
                  OfScope(lk.packagesToUpdate[i], lk.scope.value[j])
        /\ Pruned => \A pkgPath \in PathsBefore \ PathsAfter : PathOfScopes(pkgPath)

(***************************************************************************)
(* A monorepo (lerna.json present) from release-start to release-finish,   *)
(* seen through its manifests: the root package.json and the package.json  *)
(* of each package, on the release branch and on main.                     *)
(***************************************************************************)

MonoFiles == {RootFile} \cup PackageFiles

\* manifests of develop: stable, a dev tag, a dev tag among the development
\* dependencies, a dev tag of a package that may be excluded
MonoManifests ==
    { Manifest("2.3.0", [pkg \in {"a"} |-> "1.0.0"], NoDeps, NoDeps),
      Manifest("2.3.0", [pkg \in {"a"} |-> "dev"], NoDeps, NoDeps),
      Manifest("2.3.0", [pkg \in {"a"} |-> "1.0.0"], [pkg \in {"b"} |-> "dev"], NoDeps),
      Manifest("2.3.0", [pkg \in {"@mui/lab"} |-> "dev"], NoDeps, NoDeps) }

InitMono ==
    /\ IdleProcess
    /\ vd = IdleCall
    /\ sv = NoCall /\ rw = NoCall /\ race = NoCall /\ lk = NoCall
    /\ cp = NoCall /\ inv = NoCall
    /\ \E develop \in [MonoFiles -> MonoManifests], exclude \in {{}, {"@mui/lab"}} :
          mono = [pc |-> "release-start", exclude |-> exclude,
                  release |-> develop,
                  main |-> [file \in MonoFiles |-> MainManifest],
                  replaced |-> {}, invalidDeps |-> {}]

MonoUnchanged == UNCHANGED <<repoVars, procVars, vd, sv, rw, race, lk, cp, inv>>

\* release-start, updateDistTagsDependencies(true, version => version === 'dev',
\* 'next'): the root manifest and the manifest of every package are rewritten
\* and committed on release
MonoUpdateDistTagsDependencies ==
    /\ mono.pc = "release-start"
    /\ mono' = [mono EXCEPT
                  !.pc = "release",
                  !.release = [file \in MonoFiles |->
                                  RewrittenManifest(mono.release[file], "isDev", "next")]]
    /\ MonoUnchanged

\* the manifest with every next tag replaced by a released version
Stabilised(packageJson) ==
    LET replace(map) == [pkg \in DOMAIN map |-> IF map[pkg] = "next" THEN "1.0.0" ELSE map[pkg]]
    IN  [packageJson EXCEPT !.dependencies = replace(@),
                            !.devDependencies = replace(@),
                            !.peerDependencies = replace(@)]

\* a commit on release replaces the next tags of one manifest by versions
MonoReplace ==
    /\ mono.pc = "release"
    /\ \E file \in MonoFiles \ mono.replaced :
          mono' = [mono EXCEPT
                     !.replaced = @ \cup {file},
                     !.release[file] = Stabilised(mono.release[file])]
    /\ MonoUnchanged

\* release-finish, validateDependencies('main', exclude): package.json of the
\* working directory, the root manifest, is the one read
MonoValidateDependencies ==
    /\ mono.pc = "release"
    /\ \E invalidDeps \in {InvalidDeps(mono.release[RootFile], "main", mono.exclude)} :
          mono' = [mono EXCEPT
                     !.pc = IF invalidDeps # {} THEN "exited" ELSE "mergeFromBranch",
                     !.invalidDeps = invalidDeps]
    /\ MonoUnchanged

\* mergeFromBranch(git, sourceBranch) on main: the manifests of release
\* become those of main
MonoMergeFromBranch ==
    /\ mono.pc = "mergeFromBranch"
    /\ mono' = [mono EXCEPT !.pc = "changeLernaProjectVersion",
                            !.main = mono.release]
    /\ MonoUnchanged

\* changeLernaProjectVersion(branchVersion, 'main') and what follows it: the
\* version fields are set, the dependency maps stay
MonoChangeLernaProjectVersion ==
    /\ mono.pc = "changeLernaProjectVersion"
    /\ \E branchVersion \in {getVersionCore(mono.release[RootFile].version)} :
          mono' = [mono EXCEPT
                     !.pc = "completed",
                     !.main = [file \in MonoFiles |->
                                  WithVersion(mono.main[file], branchVersion)]]
    /\ MonoUnchanged

NextMono ==
    \/ MonoUpdateDistTagsDependencies \/ MonoReplace \/ MonoValidateDependencies
    \/ MonoMergeFromBranch \/ MonoChangeLernaProjectVersion

SpecMono == InitMono /\ [][NextMono]_vars

\* C39: when release-finish of a monorepo has passed the validation and has
\* completed, no manifest of main, root or package, has a dependency entry
\* of a package that is not excluded whose specifier the main policy forbids.
C39_NoForbiddenSpecifierOnMain ==
    mono.pc = "completed" =>
        \A file \in MonoFiles : \A e \in Entries(mono.main[file]) :
            e[2] \notin mono.exclude => isVersionAllowed(e[3], "main")

\* C40: whichever branch was checked out when release-start was invoked, the
\* manifest committed and pushed on release has the dependency maps of
\* develop's updated manifest with dev replaced by next and nothing else
\* changed, and the stability check answers for develop's manifest: it ends
\* the run only when develop has a dependency that is not stable and, with
\* no lock file present, lets it pass only when develop has none.
C40_WorksOnDevelopManifest ==
    cmd.name = "release-start" =>
        /\ ReleaseStarted =>
              \A type \in DependencyTypes :
                  remote["release"][type]
                      = RewrittenManifest(start.remote["develop"], "isDev", "next")[type]
        /\ failure = "NotStableDependencies" =>
              hasNotStableDependencies(start.remote["develop"])
        /\ (status = "running" /\ pc > 4 /\ lockFiles = {}) =>
              ~hasNotStableDependencies(start.remote["develop"])

=============================================================================
